---- MODULE Spec2Model ----
(***************************************************************************)
(* A model of the dataset-consolidation tools of Proyecto-ML-202510:       *)
(* tools/utils/parsing.py (name normalizer) and tools/transform/dataset.py *)
(* (rating normalizer, dataset builder, final cleaner).                    *)
(*                                                                         *)
(* Text is modelled as a sequence of one-character strings, so that every  *)
(* conversion (strip, split, replace, upper, regex substitution, numeric   *)
(* parsing) is computed character by character as the code computes it.    *)
(* A CSV file is modelled by the table pandas reads back from it.          *)
(***************************************************************************)
EXTENDS Integers, Sequences, FiniteSets, TLC

VARIABLES
    dataset,   \* the CSV file at output_path / file_path: NoFile or a table
    call,      \* the last tool call: its name, its arguments, the file before it
    ret        \* what the last call returned

vars == <<dataset, call, ret>>

----------------------------------------------------------------------------
(* Bounds of the model.                                                    *)

MaxRatingLen == 3
MaxNameLen == 3

----------------------------------------------------------------------------
(* Python text primitives, on sequences of characters.                     *)

LowerSeq == <<"a","b","c","d","e","f","g","h","i","j","k","l","m",
              "n","o","p","q","r","s","t","u","v","w","x","y","z">>
UpperSeq == <<"A","B","C","D","E","F","G","H","I","J","K","L","M",
              "N","O","P","Q","R","S","T","U","V","W","X","Y","Z">>
DigitSeq == <<"0","1","2","3","4","5","6","7","8","9">>

Range(s) == {s[i] : i \in DOMAIN s}

LowerLetters == Range(LowerSeq)
UpperLetters == Range(UpperSeq)
Digits == Range(DigitSeq)

\* str.isalpha() on one character of the modelled alphabet
IsAlpha(c) == c \in LowerLetters \cup UpperLetters \cup {"é", "ñ"}

\* str.upper() / str.lower() on one character
UpperChar(c) ==
    IF c \in LowerLetters THEN UpperSeq[CHOOSE i \in DOMAIN LowerSeq : LowerSeq[i] = c]
    ELSE IF c = "é" THEN "É" ELSE IF c = "ñ" THEN "Ñ" ELSE c
LowerChar(c) ==
    IF c \in UpperLetters THEN LowerSeq[CHOOSE i \in DOMAIN UpperSeq : UpperSeq[i] = c]
    ELSE IF c = "É" THEN "é" ELSE IF c = "Ñ" THEN "ñ" ELSE c

Upper(s) == [i \in DOMAIN s |-> UpperChar(s[i])]
Lower(s) == [i \in DOMAIN s |-> LowerChar(s[i])]

\* ''.join(c for c in s if P(c))
Filter(s, P(_)) == SelectSeq(s, P)

\* All sequences over S of length at most n
SeqsUpTo(S, n) == UNION {[1..k -> S] : k \in 0..n}

Whitespace == {" "}

RECURSIVE LStrip(_, _)
LStrip(s, cs) == IF s # <<>> /\ Head(s) \in cs THEN LStrip(Tail(s), cs) ELSE s

RECURSIVE RStrip(_, _)
RStrip(s, cs) ==
    IF s # <<>> /\ s[Len(s)] \in cs THEN RStrip(SubSeq(s, 1, Len(s) - 1), cs) ELSE s

\* str.strip(chars)
Strip(s, cs) == LStrip(RStrip(s, cs), cs)

\* str.split(sep) for a one-character separator: always at least one part
RECURSIVE Split(_, _)
Split(s, sep) ==
    IF \A i \in DOMAIN s : s[i] # sep THEN <<s>>
    ELSE LET k == CHOOSE i \in DOMAIN s :
                      s[i] = sep /\ \A j \in 1..(i - 1) : s[j] # sep
         IN  <<SubSeq(s, 1, k - 1)>> \o Split(SubSeq(s, k + 1, Len(s)), sep)

\* str.replace(old, new) for a one-character old
RECURSIVE Replace(_, _, _)
Replace(s, old, new) ==
    IF s = <<>> THEN <<>>
    ELSE (IF Head(s) = old THEN new ELSE <<Head(s)>>) \o Replace(Tail(s), old, new)

\* Python values that reach the normalizers: a str, or something that is not
PyStr(s) == [ty |-> "str", s |-> s]
PyNone == [ty |-> "NoneType", s |-> <<>>]

----------------------------------------------------------------------------
(* Rating Normalizer: dataset.py _normalize_rating                         *)

RATING_ORDER == << <<"A","A","A">>, <<"A","A">>, <<"A">>,
                   <<"B","B","B">>, <<"B","B">>, <<"B">>,
                   <<"C">>, <<"D">>, <<"E">> >>

RatingSymbols == Range(RATING_ORDER)

\* the documented examples 'BBB+/D' and 'AA-/Mutualistas'
BBB_PLUS_D == <<"B","B","B","+","/","D">>
AA_MINUS_MUTUALISTAS ==
    <<"A","A","-","/","M","u","t","u","a","l","i","s","t","a","s">>

\* RATING_MAP[r]: the 0-based ordinal of a symbol (RATING_MAP.get(x, -1))
RATING_MAP(r) ==
    IF r \in RatingSymbols
    THEN (CHOOSE i \in DOMAIN RATING_ORDER : RATING_ORDER[i] = r) - 1
    ELSE -1

\* parts = [p.strip() for p in r.split('/') if p.strip()]
RatingParts(r) ==
    LET raw == Split(r, "/")
        stripped == [i \in DOMAIN raw |-> Strip(raw[i], Whitespace)]
    IN  SelectSeq(stripped, LAMBDA p : p # <<>>)

\* the loop body: base = p.rstrip('+-'); main = letters of base, upper-cased
RatingMain(p) == Upper(Filter(RStrip(p, {"+", "-"}), IsAlpha))

RatingCandidates(r) ==
    LET parts == RatingParts(r)
        mains == [i \in DOMAIN parts |-> RatingMain(parts[i])]
    IN  SelectSeq(mains, LAMBDA m : m \in RatingSymbols)

\* max(candidates, key=RATING_MAP.get): the first element with the largest key
MaxByKey(cands, key(_)) ==
    cands[CHOOSE i \in DOMAIN cands :
            /\ \A j \in DOMAIN cands : key(cands[j]) <= key(cands[i])
            /\ \A j \in 1..(i - 1) : key(cands[j]) < key(cands[i])]

\* a plausible slip: min instead of max picks the best rating, not the worst
normalize_rating_best(r) ==
    IF r.ty # "str" THEN <<>>
    ELSE LET cands == RatingCandidates(Strip(Replace(r.s, "*", <<>>), Whitespace))
         IN  IF cands = <<>> THEN <<>>
             ELSE MaxByKey(cands, LAMBDA x : 0 - RATING_MAP(x))

normalize_rating(r) ==
    IF r.ty # "str" THEN <<>>
    ELSE LET cands == RatingCandidates(Strip(Replace(r.s, "*", <<>>), Whitespace))
         IN  IF cands = <<>> THEN <<>>
             ELSE MaxByKey(cands, LAMBDA x : RATING_MAP(x))

----------------------------------------------------------------------------
(* Name Normalizer: parsing.py normalize_feature_name                      *)

\* unicodedata.normalize('NFKD', c).encode('ASCII', 'ignore').decode('ASCII')
\* for one character: an ASCII character is kept, an accented letter loses its
\* combining mark, a symbol without ASCII decomposition disappears
AsciiFold(c) ==
    CASE c = "é" -> <<"e">>
      [] c = "É" -> <<"E">>
      [] c = "ñ" -> <<"n">>
      [] c = "Ñ" -> <<"N">>
      [] c = "€" -> <<>>
      [] OTHER -> <<c>>

RECURSIVE AsciiFoldAll(_)
AsciiFoldAll(s) == IF s = <<>> THEN <<>> ELSE AsciiFold(Head(s)) \o AsciiFoldAll(Tail(s))

IsSnakeChar(c) == c \in LowerLetters \cup Digits

\* re.sub(r'[^a-z0-9]+', '_', s): every maximal run of other characters -> '_'
RECURSIVE CollapseNonAlnum(_)
CollapseNonAlnum(s) ==
    IF s = <<>> THEN <<>>
    ELSE IF IsSnakeChar(Head(s)) THEN <<Head(s)>> \o CollapseNonAlnum(Tail(s))
    ELSE <<"_">> \o CollapseNonAlnum(LStrip(s, {s[i] : i \in DOMAIN s} \ (LowerLetters \cup Digits)))

SOBRE == <<"_","s","o","b","r","e","_">>
PORCENTAJE == <<"_","p","o","r","c","e","n","t","a","j","e">>

\* a plausible slip: the underscores are stripped before the runs are collapsed
normalize_feature_name_strip_first(name) ==
    IF name.ty = "NoneType" \/ name.s = <<>> THEN <<>>
    ELSE CollapseNonAlnum(Strip(Lower(
            Replace(Replace(AsciiFoldAll(name.s), "/", SOBRE), "%", PORCENTAJE)), {"_"}))

normalize_feature_name(name) ==
    IF name.ty = "NoneType" \/ name.s = <<>> THEN <<>>
    ELSE Strip(CollapseNonAlnum(Lower(
            Replace(Replace(AsciiFoldAll(name.s), "/", SOBRE), "%", PORCENTAJE))), {"_"})

----------------------------------------------------------------------------
(* CSV files and data frames.  A file is its header and its rows as        *)
(* written; a frame is what pandas.read_csv makes of it.  A cell is null,  *)
(* a text, or a number n / sqrt(sp / sq) (sp = sq = 1 for a plain integer; *)
(* the square-root scale holds a standardized value exactly).              *)

Null == [t |-> "null", txt |-> <<>>, num |-> 0, sp |-> 1, sq |-> 1]
Text(s) == [t |-> "text", txt |-> s, num |-> 0, sp |-> 1, sq |-> 1]
Num(n, p, q) == [t |-> "num", txt |-> <<>>, num |-> n, sp |-> p, sq |-> q]

IsNull(c) == c.t = "null"

RECURSIVE IntToChars(_)
IntToChars(n) ==
    IF n < 10 THEN <<DigitSeq[n + 1]>>
    ELSE IntToChars(n \div 10) \o <<DigitSeq[(n % 10) + 1]>>

Count(counts, c) == IF c \in DOMAIN counts THEN counts[c] ELSE 0
Put(counts, c, v) == [x \in DOMAIN counts \cup {c} |-> IF x = c THEN v ELSE counts[x]]

\* read_csv's renaming of a repeated header name: name, name.1, name.2, ...
RECURSIVE MangleLoop(_, _)
MangleLoop(col, counts) ==
    LET cur == Count(counts, col)
    IN  IF cur > 0
        THEN MangleLoop(col \o <<".">> \o IntToChars(cur), Put(counts, col, cur + 1))
        ELSE <<col, counts>>

RECURSIVE MangleFrom(_, _, _)
MangleFrom(names, i, counts) ==
    IF i > Len(names) THEN <<>>
    ELSE LET r == MangleLoop(names[i], counts)
         IN  <<r[1]>> \o MangleFrom(names, i + 1, Put(r[2], r[1], Count(r[2], r[1]) + 1))

MangleDupeCols(names) == MangleFrom(names, 1, <<>>)

\* texts read_csv takes for a missing value (keep_default_na), those the
\* model's inputs use
NaValues == {<<"N","A">>, <<"N","/","A">>, <<"n","a","n">>, <<"n","u","l","l">>}

\* a field as read_csv parses it: a missing-value text is NaN
ParseField(c) == IF c.t = "text" /\ c.txt \in NaValues THEN Null ELSE c

ParsedRows(file) ==
    [i \in DOMAIN file.rows |-> [j \in DOMAIN file.rows[i] |-> ParseField(file.rows[i][j])]]

\* pd.read_csv(path): the frame of an existing file
ReadCsv(file) == [cols |-> MangleDupeCols(file.cols), rows |-> ParsedRows(file)]

\* df.to_csv(path, index=False): an empty text and a null are both an empty field
CsvCell(c) == IF c.t = "text" /\ c.txt = <<>> THEN Null ELSE c

ToCsv(df) ==
    [exists |-> TRUE,
     cols |-> df.cols,
     rows |-> [i \in DOMAIN df.rows |-> [j \in DOMAIN df.rows[i] |-> CsvCell(df.rows[i][j])]]]

NoFile == [exists |-> FALSE, cols |-> <<>>, rows |-> <<>>]

ColIndex(cols, name) == CHOOSE j \in DOMAIN cols : cols[j] = name
Column(df, j) == [i \in DOMAIN df.rows |-> df.rows[i][j]]

\* Series.astype(str) on one cell: NaN becomes the text 'nan'
AsStr(c) == IF c.t = "text" THEN c.txt ELSE <<"n","a","n">>

COOPERATIVA == <<"c","o","o","p","e","r","a","t","i","v","a">>
ABREVIACION == <<"a","b","r","e","v","i","a","c","i","o","n">>
LABEL == <<"L","a","b","e","l">>

Result(file, message) == [file |-> file, ret |-> message]

----------------------------------------------------------------------------
(* Dataset Builder: dataset.py create_dataset, append_aligned_columns,     *)
(* append_cleaned_risk_column.  Each returns the file afterwards and the   *)
(* message.                                                                *)

\* a plausible slip: the lists zipped, the longer one cut to the shorter
create_dataset_zipped(cooperatives, abbreviations, out) ==
    LET n == IF Len(cooperatives) < Len(abbreviations)
             THEN Len(cooperatives) ELSE Len(abbreviations)
    IN  Result(ToCsv([cols |-> <<COOPERATIVA, ABREVIACION>>,
                      rows |-> [i \in 1..n |->
                                  <<Text(cooperatives[i]), Text(abbreviations[i])>>]]),
               "Successfully created dataset")

create_dataset(cooperatives, abbreviations, out) ==
    IF Len(cooperatives) # Len(abbreviations)
    THEN Result(out, "Error: Length mismatch")
    ELSE Result(ToCsv([cols |-> <<COOPERATIVA, ABREVIACION>>,
                       rows |-> [i \in DOMAIN cooperatives |->
                                   <<Text(cooperatives[i]), Text(abbreviations[i])>>]]),
                "Successfully created dataset")

\* pd.DataFrame(aligned_rows): the keys of the dicts are the columns, so an
\* empty list of rows makes a frame without columns
DataFrameOfDicts(keys, aligned_rows) ==
    [cols |-> IF aligned_rows = <<>> THEN <<>> ELSE keys, rows |-> aligned_rows]

\* pd.concat([a, b], axis=1) of two frames with the same RangeIndex
ConcatColumns(a, b) ==
    [cols |-> a.cols \o b.cols,
     rows |-> [i \in DOMAIN a.rows |-> a.rows[i] \o b.rows[i]]]

\* raw_values[src_idx], df.iloc[src_idx]: a negative index counts from the end
PyIndexable(xs, i) == -Len(xs) <= i /\ i < Len(xs)
PyIndex(xs, i) == IF i >= 0 THEN xs[i + 1] ELSE xs[Len(xs) + i + 1]

\* a plausible slip: Python-style negative indexes pass the bounds test
SourceIndexInBounds_negative(src_idx, n_src) == -n_src <= src_idx /\ src_idx < n_src

\* elif 0 <= src_idx < len(df_source)
SourceIndexInBounds(src_idx, n_src) == 0 <= src_idx /\ src_idx < n_src

\* a plausible slip: the mapping read as 1-based
AlignedRow_off_by_one(df_source, src_idx) ==
    IF src_idx = -1
    THEN [j \in DOMAIN Tail(df_source.cols) |-> Null]
    ELSE Tail(PyIndex(df_source.rows, src_idx - 1))

\* the loop body: the row appended for one mapping value, first column dropped
AlignedRow(df_source, src_idx) ==
    IF src_idx = -1
    THEN [j \in DOMAIN Tail(df_source.cols) |-> Null]
    ELSE Tail(PyIndex(df_source.rows, src_idx))

append_aligned_columns(source, index_mapping, out) ==
    IF ~out.exists THEN Result(out, "Error: Output dataset does not exist")
    ELSE IF ~source.exists THEN Result(out, "Error appending columns")
    ELSE
    LET df_source == ReadCsv(source)
        df_target == ReadCsv(out)
        aligned_rows ==
            [i \in DOMAIN index_mapping |-> AlignedRow(df_source, index_mapping[i])]
    IN  IF Len(index_mapping) # Len(df_target.rows)
        THEN Result(out, "Error: Mapping length != Target length")
        ELSE IF \E i \in DOMAIN index_mapping :
                    /\ index_mapping[i] # -1
                    /\ ~SourceIndexInBounds(index_mapping[i], Len(df_source.rows))
        THEN Result(out, "Error: Source index out of bounds")
        ELSE Result(ToCsv(ConcatColumns(df_target,
                        DataFrameOfDicts(Tail(df_source.cols), aligned_rows))),
                    "Successfully appended columns")

\* df_target['Label'] = values: in place when the column exists, else appended
SetColumn(df, name, values) ==
    IF name \in Range(df.cols)
    THEN [cols |-> df.cols,
          rows |-> [i \in DOMAIN df.rows |->
                      [df.rows[i] EXCEPT ![ColIndex(df.cols, name)] = values[i]]]]
    ELSE [cols |-> Append(df.cols, name),
          rows |-> [i \in DOMAIN df.rows |-> Append(df.rows[i], values[i])]]

append_cleaned_risk_column(source, column_name, index_mapping, out) ==
    IF ~out.exists THEN Result(out, "Error: Output dataset does not exist")
    ELSE IF ~source.exists THEN Result(out, "Error appending risk column")
    ELSE
    LET df_source == ReadCsv(source)
    IN  IF column_name \notin Range(df_source.cols)
        THEN Result(out, "Error: Column not found")
        ELSE
        LET raw == Column(df_source, ColIndex(df_source.cols, column_name))
            raw_values == [i \in DOMAIN raw |-> AsStr(raw[i])]
            cleaned_labels ==
                [i \in DOMAIN index_mapping |->
                    IF index_mapping[i] = -1 \/ index_mapping[i] >= Len(raw_values)
                    THEN Text(<<>>)
                    ELSE Text(normalize_rating(PyStr(PyIndex(raw_values, index_mapping[i]))))]
            df_target == ReadCsv(out)
        IN  IF \E i \in DOMAIN index_mapping :
                   /\ index_mapping[i] # -1
                   /\ index_mapping[i] < Len(raw_values)
                   /\ ~PyIndexable(raw_values, index_mapping[i])
            THEN Result(out, "Error appending risk column")
            ELSE IF Len(cleaned_labels) # Len(df_target.rows)
            THEN Result(out, "Error: Label count != Target length")
            ELSE Result(ToCsv(SetColumn(df_target, LABEL, cleaned_labels)),
                        "Successfully appended cleaned 'Label' column")

----------------------------------------------------------------------------
(* Final Cleaner: dataset.py finalize_and_clean_dataset.  The frame keeps   *)
(* its pandas index (the row numbers of the file read), which dropna and   *)
(* drop_duplicates preserve and to_csv(index=False) leaves out.            *)

ENTITY == <<"e","n","t","i","t","y">>
SEGMENTO == <<"s","e","g","m","e","n","t","o">>

special_names == {COOPERATIVA, ABREVIACION, Lower(LABEL), ENTITY, SEGMENTO}

ReadCsvIndexed(file) ==
    [cols |-> MangleDupeCols(file.cols),
     rows |-> ParsedRows(file),
     index |-> [i \in DOMAIN file.rows |-> i - 1]]

RECURSIVE KeepFrom(_, _, _)
KeepFrom(s, K, i) ==
    IF i > Len(s) THEN <<>>
    ELSE (IF i \in K THEN <<s[i]>> ELSE <<>>) \o KeepFrom(s, K, i + 1)

\* the elements of s at the positions in K, in order
KeepAt(s, K) == KeepFrom(s, K, 1)

KeepColumns(df, J) ==
    [cols |-> KeepAt(df.cols, J),
     rows |-> [i \in DOMAIN df.rows |-> KeepAt(df.rows[i], J)],
     index |-> df.index]

KeepRows(df, I) ==
    [cols |-> df.cols, rows |-> KeepAt(df.rows, I), index |-> KeepAt(df.index, I)]

\* [c for c in df.columns if c.lower() in special_names]
NonFeatureCols(df) == {c \in Range(df.cols) : Lower(c) \in special_names}

RECURSIVE ParseDigits(_)
ParseDigits(s) ==
    IF s = <<>> THEN 0
    ELSE 10 * ParseDigits(SubSeq(s, 1, Len(s) - 1))
         + (CHOOSE d \in 0..9 : DigitSeq[d + 1] = s[Len(s)])

IsDigits(s) == s # <<>> /\ \A i \in DOMAIN s : s[i] \in Digits

\* pd.to_numeric(text, errors='coerce') on the texts of the model: an integer
\* with an optional sign is a number, anything else ('nan', '-', 'x', '') is NaN
ToNumeric(s) ==
    IF IsDigits(s) THEN Num(ParseDigits(s), 1, 1)
    ELSE IF s # <<>> /\ Head(s) = "-" /\ IsDigits(Tail(s))
    THEN Num(0 - ParseDigits(Tail(s)), 1, 1)
    ELSE Null

\* astype(str).str.replace(r'[%,$]', '') then to_numeric; a number stays itself
CoerceCell(c) ==
    IF c.t = "num" THEN c
    ELSE ToNumeric(Filter(AsStr(c), LAMBDA ch : ch \notin {"%", ",", "$"}))

\* step 2: every feature column parsed as numbers
CoerceFeatures(df, non_feature_cols) ==
    [df EXCEPT !.rows =
        [i \in DOMAIN df.rows |->
            [j \in DOMAIN df.cols |->
                IF df.cols[j] \in non_feature_cols THEN df.rows[i][j]
                ELSE CoerceCell(df.rows[i][j])]]]

NonNullCount(col) == Cardinality({i \in DOMAIN col : ~IsNull(col[i])})

\* a plausible slip: a column with exactly half of its values null is dropped
DropSparseColumns_at_half(df) ==
    KeepColumns(df, {j \in DOMAIN df.cols : 2 * NonNullCount(Column(df, j)) > Len(df.rows)})

\* step 3: df.dropna(axis=1, thresh=len(df) * 0.5) keeps a column whose count
\* of non-null values is at least the threshold
DropSparseColumns(df) ==
    KeepColumns(df, {j \in DOMAIN df.cols : 2 * NonNullCount(Column(df, j)) >= Len(df.rows)})

\* the value n * sqrt(sq / sp) of two numeric cells compared
NumSign(c) == IF c.num > 0 THEN 1 ELSE IF c.num < 0 THEN -1 ELSE 0
NumSquareLess(a, b) == a.num * a.num * a.sq * b.sp < b.num * b.num * b.sq * a.sp
NumEq(a, b) ==
    /\ NumSign(a) = NumSign(b)
    /\ a.num * a.num * a.sq * b.sp = b.num * b.num * b.sq * a.sp
NumLess(a, b) ==
    \/ NumSign(a) < NumSign(b)
    \/ NumSign(a) = 1 /\ NumSign(b) = 1 /\ NumSquareLess(a, b)
    \/ NumSign(a) = -1 /\ NumSign(b) = -1 /\ NumSquareLess(b, a)

SameValue(a, b) ==
    /\ a.t = b.t
    /\ (a.t = "text" => a.txt = b.txt)
    /\ (a.t = "num" => NumEq(a, b))

NonNull(col) == SelectSeq(col, LAMBDA c : ~IsNull(c))

\* df[c].nunique(dropna=True) <= 1
AtMostOneValue(col) ==
    \A i, j \in DOMAIN col :
        (~IsNull(col[i]) /\ ~IsNull(col[j])) => SameValue(col[i], col[j])

\* step 4: feature columns with at most one distinct non-null value dropped
DropConstantFeatures(df, non_feature_cols) ==
    KeepColumns(df, {j \in DOMAIN df.cols :
                        \/ df.cols[j] \in non_feature_cols
                        \/ ~AtMostOneValue(Column(df, j))})

\* the cells of one column share one scale (sp, sq); a median between two
\* values is their half sum, held on the doubled scale
HasMedian(col) == NonNull(col) # <<>>
MedianIsHalfSum(col) == Len(NonNull(col)) % 2 = 0
Median(col) ==
    LET sorted == SortSeq(NonNull(col), NumLess)
        n == Len(sorted)
    IN  IF n % 2 = 1 THEN sorted[(n + 1) \div 2]
        ELSE Num(sorted[n \div 2].num + sorted[n \div 2 + 1].num,
                 4 * sorted[n \div 2].sp, sorted[n \div 2].sq)

\* df[col].fillna(median), or fillna(0) when the median is NaN
FillMedian(col) ==
    IF \A i \in DOMAIN col : ~IsNull(col[i]) THEN col
    ELSE IF ~HasMedian(col) THEN [i \in DOMAIN col |-> Num(0, 1, 1)]
    ELSE IF MedianIsHalfSum(col)
    THEN [i \in DOMAIN col |->
            IF IsNull(col[i]) THEN Median(col)
            ELSE Num(2 * col[i].num, 4 * col[i].sp, col[i].sq)]
    ELSE [i \in DOMAIN col |-> IF IsNull(col[i]) THEN Median(col) ELSE col[i]]

\* apply f to the columns of df that f_cols names
MapColumns(df, f_cols, f(_)) ==
    LET new == [j \in DOMAIN df.cols |->
                   IF df.cols[j] \in f_cols THEN f(Column(df, j)) ELSE Column(df, j)]
    IN  [df EXCEPT !.rows = [i \in DOMAIN df.rows |-> [j \in DOMAIN df.cols |-> new[j][i]]]]

\* step 5
ImputeMedian(df, feature_cols) == MapColumns(df, feature_cols, FillMedian)

\* next((c for c in df.columns if c.lower() == 'cooperativa'), None)
HasCoopCol(df) == \E j \in DOMAIN df.cols : Lower(df.cols[j]) = COOPERATIVA
CoopCol(df) ==
    CHOOSE j \in DOMAIN df.cols :
        /\ Lower(df.cols[j]) = COOPERATIVA
        /\ \A k \in 1..(j - 1) : Lower(df.cols[k]) # COOPERATIVA

\* step 6: df.dropna(subset=[coop_col])
DropMissingKey(df) ==
    IF ~HasCoopCol(df) THEN df
    ELSE KeepRows(df, {i \in DOMAIN df.rows : ~IsNull(df.rows[i][CoopCol(df)])})

\* step 7: df.drop_duplicates(subset=[coop_col], keep='first')
DropDuplicateKeys(df) ==
    IF ~HasCoopCol(df) THEN df
    ELSE KeepRows(df, {i \in DOMAIN df.rows :
            \A k \in 1..(i - 1) :
                ~SameValue(df.rows[k][CoopCol(df)], df.rows[i][CoopCol(df)])})

Abs(x) == IF x < 0 THEN -x ELSE x

RECURSIVE Gcd(_, _)
Gcd(x, y) == IF y = 0 THEN Abs(x) ELSE Gcd(y, Abs(x) % Abs(y))

RECURSIVE GcdSeq(_)
GcdSeq(s) == IF s = <<>> THEN 0 ELSE Gcd(Head(s), GcdSeq(Tail(s)))

RECURSIVE SumSeq(_)
SumSeq(s) == IF s = <<>> THEN 0 ELSE Head(s) + SumSeq(Tail(s))

\* step 8: (x - mean) / std with the sample standard deviation.  For values
\* a[i] * s on a common scale s, with n values of sum S, b[i] = n * a[i] - S and
\* B the sum of the b[i] squared: x - mean = s * b[i] / n and
\* std = s * sqrt(B / (n - 1)) / n, so the quotient is b[i] / sqrt(B / (n - 1)).
\* std is NaN for fewer than two rows and 0 when B = 0: the column is set to 0.0
\* The quotient does not change when every b[i] is divided by a common factor,
\* so the b[i] are held in lowest terms.
StandardizeColumn(col) ==
    LET n == Len(col)
        a == [i \in DOMAIN col |-> col[i].num]
        d == [i \in DOMAIN col |-> n * a[i] - SumSeq(a)]
        g == GcdSeq(d)
        b == [i \in DOMAIN col |-> IF g = 0 THEN 0 ELSE d[i] \div g]
        B == SumSeq([i \in DOMAIN col |-> b[i] * b[i]])
    IN  IF n < 2 \/ B = 0 THEN [i \in DOMAIN col |-> Num(0, 1, 1)]
        ELSE [i \in DOMAIN col |-> Num(b[i], B, n - 1)]

Standardize(df, feature_cols) == MapColumns(df, feature_cols, StandardizeColumn)

\* the frame finalize_and_clean_dataset saves, from the frame it reads
FinalFrame(df) ==
    LET non_feature_cols == NonFeatureCols(df)
        dense == DropSparseColumns(CoerceFeatures(df, non_feature_cols))
        varied == DropConstantFeatures(dense, non_feature_cols)
        feature_cols == Range(varied.cols) \ non_feature_cols
        keyed == DropDuplicateKeys(DropMissingKey(ImputeMedian(varied, feature_cols)))
    IN  Standardize(keyed, feature_cols)

\* read_csv raises on a missing file and on a file without columns
finalize_and_clean_dataset(file) ==
    IF ~file.exists \/ file.cols = <<>> THEN Result(file, "Error in final cleaning")
    ELSE Result(ToCsv(FinalFrame(ReadCsvIndexed(file))),
                "Successfully cleaned and normalized dataset")

----------------------------------------------------------------------------
(* The Dataset Builder's inputs: entity lists, source CSV files, mappings.  *)

MaxEntities == 2

EntityNames == {<<"A">>, <<"B">>}
CooperativeLists == SeqsUpTo(EntityNames, MaxEntities)
AbbreviationLists == SeqsUpTo({<<"X">>}, MaxEntities)

NAME == <<"n","a","m","e">>
RATING == <<"r","a","t","i","n","g">>

\* rows [B Coop, 10], [A Coop, 20]: the documented end-to-end scenario
FeatureSource ==
    [exists |-> TRUE, cols |-> <<NAME, <<"f">>>>,
     rows |-> << <<Text(<<"B">>), Text(<<"1","0">>)>>,
                 <<Text(<<"A">>), Text(<<"2","0">>)>> >>]
WideSource ==
    [exists |-> TRUE, cols |-> <<NAME, <<"f">>, <<"g">>>>,
     rows |-> << <<Text(<<"A">>), Text(<<"3">>), Null>> >>]
NamesOnlySource ==
    [exists |-> TRUE, cols |-> <<NAME>>,
     rows |-> << <<Text(<<"A">>)>>, <<Text(<<"B">>)>> >>]
RiskSource ==
    [exists |-> TRUE, cols |-> <<NAME, RATING>>,
     rows |-> << <<Text(<<"A">>), Text(BBB_PLUS_D)>>,
                 <<Text(<<"B">>), Text(<<"A","A","-">>)>> >>]
SmallRiskSource ==
    [exists |-> TRUE, cols |-> <<NAME, RATING>>,
     rows |-> << <<Text(<<"B">>), Null>> >>]

FeatureSources == {FeatureSource, WideSource, NamesOnlySource, NoFile}
RiskSources == {RiskSource, SmallRiskSource, NoFile}
RiskColumns == {RATING, <<"f">>}

\* below the sentinel, the sentinel, rows 0 and 1, past the last row
MappingValues == {-2, -1, 0, 1, 2}
Mappings == SeqsUpTo(MappingValues, MaxEntities)

NoCall == [op |-> "none", source |-> NoFile, column |-> <<>>, mapping |-> <<>>,
           before |-> NoFile]

\* The dataset files a run of the consolidator can have on disk before an
\* append: none, a freshly created one, one with a feature column, one with a
\* Label column already.
CreatedDatasets ==
    {create_dataset(c, a, NoFile).file :
        <<c, a>> \in {p \in CooperativeLists \X AbbreviationLists : Len(p[1]) = Len(p[2])}}

Destinations ==
    {NoFile} \cup CreatedDatasets
    \cup {append_aligned_columns(FeatureSource, [i \in DOMAIN d.rows |-> 0], d).file :
            d \in CreatedDatasets}
    \cup {append_cleaned_risk_column(RiskSource, RATING, [i \in DOMAIN d.rows |-> 1], d).file :
            d \in CreatedDatasets}

InitBuilder ==
    /\ dataset \in Destinations
    /\ call = NoCall
    /\ ret = ""

AppendAlignedColumns ==
    /\ call.op = "none"
    /\ \E source \in FeatureSources, m \in Mappings :
          LET r == append_aligned_columns(source, m, dataset)
          IN  /\ dataset' = r.file
              /\ ret' = r.ret
              /\ call' = [op |-> "append_aligned_columns", source |-> source,
                          column |-> <<>>, mapping |-> m, before |-> dataset]

AppendCleanedRiskColumn ==
    /\ call.op = "none"
    /\ \E source \in RiskSources, column \in RiskColumns, m \in Mappings :
          LET r == append_cleaned_risk_column(source, column, m, dataset)
          IN  /\ dataset' = r.file
              /\ ret' = r.ret
              /\ call' = [op |-> "append_cleaned_risk_column", source |-> source,
                          column |-> column, mapping |-> m, before |-> dataset]

\* One append call on a dataset file the consolidator can have
SpecBuilder == InitBuilder /\ [][AppendAlignedColumns \/ AppendCleanedRiskColumn]_vars

----------------------------------------------------------------------------
(* Claims about append_aligned_columns and append_cleaned_risk_column.     *)

IsError(message) ==
    message \in {"Error: Output dataset does not exist", "Error appending columns",
                 "Error: Mapping length != Target length",
                 "Error: Source index out of bounds", "Error: Column not found",
                 "Error appending risk column", "Error: Label count != Target length",
                 "Error: Length mismatch", "Error in final cleaning"}

AppendedOk ==
    call.op = "append_aligned_columns" /\ ret = "Successfully appended columns"

\* the cells of row i from column `from` on
CellsFrom(row, from) == SubSeq(row, from, Len(row))

\* C1: after a successful append_aligned_columns, the appended cells of row i
\* are the cells of source row mapping[i] without its first column, and all
\* null where mapping[i] = -1; entities [A, B], source rows [B,10],[A,20] and
\* mapping [1,0] give the aligned column [20,10].
C1_AppendedCellsFollowMapping ==
    AppendedOk =>
        LET m == call.mapping
            src == call.source
            width == Len(call.before.cols)
        IN  /\ \A i \in DOMAIN m :
                  /\ m[i] \in 0..(Len(src.rows) - 1) =>
                        CellsFrom(dataset.rows[i], width + 1) = Tail(src.rows[m[i] + 1])
                  /\ m[i] = -1 =>
                        /\ Len(dataset.rows[i]) = width + Len(src.cols) - 1
                        /\ \A j \in (width + 1)..Len(dataset.rows[i]) :
                              IsNull(dataset.rows[i][j])
            /\ (/\ src = FeatureSource
                /\ m = <<1, 0>>
                /\ Column(call.before, 1) = <<Text(<<"A">>), Text(<<"B">>)>>
                /\ width = 2)
               => /\ Column(dataset, 1) = <<Text(<<"A">>), Text(<<"B">>)>>
                  /\ Column(dataset, 3) = <<Text(<<"2","0">>), Text(<<"1","0">>)>>

C1_Witness ==
    /\ AppendedOk
    /\ call.source = FeatureSource
    /\ call.mapping = <<1, -1>>
    /\ Column(dataset, 3) = <<Text(<<"2","0">>), Null>>

\* C2: for a destination of N >= 0 rows and C columns, a source of S columns and
\* a mapping of length N with values in [-1, sourceLen), the destination
\* afterwards has exactly N rows and C + (S - 1) columns.
C2_ShapeAfterAppend ==
    AppendedOk =>
        /\ Len(dataset.rows) = Len(call.before.rows)
        /\ Len(dataset.cols) = Len(call.before.cols) + (Len(call.source.cols) - 1)

\* C2 holds of every destination with at least one row
C2_Witness ==
    /\ AppendedOk
    /\ Len(call.before.rows) = 2
    /\ call.source = WideSource
    /\ Len(dataset.cols) = Len(call.before.cols) + 2

IllFormedMapping(m, n_target, n_src) ==
    \/ Len(m) # n_target
    \/ \E i \in DOMAIN m : m[i] # -1 /\ (m[i] < 0 \/ m[i] >= n_src)

\* C3: append_aligned_columns rejects every ill-formed mapping (wrong length, or
\* a value other than -1 outside [0, sourceLen), values below -1 included) with
\* an error message, and the destination file is then exactly as before.
C3_IllFormedMappingRejected ==
    (/\ call.op = "append_aligned_columns"
     /\ call.before.exists
     /\ call.source.exists
     /\ IllFormedMapping(call.mapping, Len(call.before.rows), Len(call.source.rows)))
    => /\ IsError(ret)
       /\ dataset = call.before

C3_Witness ==
    /\ call.op = "append_aligned_columns"
    /\ call.source = FeatureSource
    /\ call.mapping = <<0, -2>>
    /\ Len(call.before.rows) = 2
    /\ ret = "Error: Source index out of bounds"
    /\ dataset = call.before

LabelledOk ==
    /\ call.op = "append_cleaned_risk_column"
    /\ ret = "Successfully appended cleaned 'Label' column"

\* C4: the Label of row i is the empty string when mapping[i] is -1 or not in
\* [0, sourceLen) (negative or too large), and otherwise the Rating Normalizer
\* applied to the named column's raw value in source row mapping[i].
C4_LabelOfEveryRow ==
    LabelledOk =>
        LET m == call.mapping
            src == call.source
            raw == Column(src, ColIndex(src.cols, call.column))
            label == Column(dataset, ColIndex(dataset.cols, LABEL))
        IN  \A i \in DOMAIN m :
               label[i] = CsvCell(Text(
                   IF m[i] \in 0..(Len(raw) - 1)
                   THEN normalize_rating(PyStr(AsStr(raw[m[i] + 1])))
                   ELSE <<>>))

\* C4 holds of the mappings whose values are -1 or at least 0
C4_Witness ==
    /\ LabelledOk
    /\ call.source = RiskSource
    /\ call.mapping = <<1, 2>>
    /\ Column(dataset, ColIndex(dataset.cols, LABEL)) = <<Text(<<"A","A">>), Null>>

----------------------------------------------------------------------------
(* The Final Cleaner run on a consolidated dataset: a key column, a Label   *)
(* column and a feature column, then run again on its own output.          *)

MaxRows == 3
MaxPasses == 2

CoopCells == {Text(<<"A">>), Text(<<"B">>), Null}
LabelCells == {Text(<<"D">>), Null}
FeatureCells == {Text(<<"1">>), Text(<<"2","%">>), Text(<<"x">>)}

FinalizeHeader == <<COOPERATIVA, LABEL, <<"f">>>>

\* the documented boundary cases: 2 nulls of 4 rows, 3 nulls of 5 rows
TEN_PERCENT == Text(<<"1","0","%">>)
TWENTY_PERCENT == Text(<<"2","0","%">>)
THIRTY_PERCENT == Text(<<"3","0","%">>)
FourRowExample ==
    [exists |-> TRUE, cols |-> FinalizeHeader,
     rows |-> << <<Text(<<"A">>), Text(<<"D">>), TEN_PERCENT>>,
                 <<Text(<<"B">>), Text(<<"D">>), TWENTY_PERCENT>>,
                 <<Text(<<"C">>), Text(<<"D">>), Null>>,
                 <<Text(<<"E">>), Text(<<"D">>), Null>> >>]
FiveRowExample ==
    [exists |-> TRUE, cols |-> FinalizeHeader,
     rows |-> << <<Text(<<"A">>), Text(<<"D">>), TEN_PERCENT>>,
                 <<Text(<<"B">>), Text(<<"D">>), TWENTY_PERCENT>>,
                 <<Text(<<"C">>), Text(<<"D">>), Null>>,
                 <<Text(<<"E">>), Text(<<"D">>), Null>>,
                 <<Text(<<"F">>), Text(<<"D">>), Null>> >>]

FinalizeInputs ==
    {[exists |-> TRUE, cols |-> FinalizeHeader, rows |-> rows] :
        rows \in SeqsUpTo(CoopCells \X LabelCells \X FeatureCells, MaxRows)}
    \cup {FourRowExample, FiveRowExample, NoFile}

InitFinalize ==
    /\ dataset \in FinalizeInputs
    /\ call = [op |-> "none", before |-> NoFile, index |-> <<>>, nth |-> 0]
    /\ ret = ""

FinalizeAndCleanDataset ==
    /\ call.nth < MaxPasses
    /\ LET r == finalize_and_clean_dataset(dataset)
       IN  /\ dataset' = r.file
           /\ ret' = r.ret
           /\ call' = [op |-> "finalize_and_clean_dataset",
                       before |-> dataset,
                       index |-> IF dataset.exists /\ dataset.cols # <<>>
                                 THEN FinalFrame(ReadCsvIndexed(dataset)).index
                                 ELSE <<>>,
                       nth |-> call.nth + 1]

SpecFinalize == InitFinalize /\ [][FinalizeAndCleanDataset]_vars

----------------------------------------------------------------------------
(* Claims about finalize_and_clean_dataset.                                *)

FinalizedOk ==
    /\ call.op = "finalize_and_clean_dataset"
    /\ ret = "Successfully cleaned and normalized dataset"

HasColumn(file, name) == name \in Range(file.cols)
ColumnNamed(file, name) == Column(file, ColIndex(file.cols, name))

\* the cells of a column of the file read, at the rows the saved frame kept
KeptCells(col) == KeepAt(col, {i \in DOMAIN col : (i - 1) \in Range(call.index)})

ProtectedNames(file) == {c \in Range(file.cols) : Lower(c) \in special_names}

\* C7: every protected metadata column (cooperativa, abreviacion, Label, entity,
\* segmento, matched case-insensitively) is present in the output of finalize
\* with its cell values unchanged; only whole rows are removed from it.
C7_ProtectedColumnsPassThrough ==
    FinalizedOk =>
        \A c \in ProtectedNames(call.before) :
            /\ HasColumn(dataset, c)
            /\ ColumnNamed(dataset, c) = KeptCells(ColumnNamed(call.before, c))

\* C7 holds of a protected column that is not more than half null
C7_Witness ==
    /\ FinalizedOk
    /\ Len(call.before.rows) = 3
    /\ Len(dataset.rows) = 2
    /\ HasColumn(dataset, LABEL)
    /\ ColumnNamed(dataset, LABEL) = <<Null, Text(<<"D">>)>>

\* the cell of column j as step 3 sees it: a feature cell is coerced first
CoercedCell(file, i, j) ==
    IF file.cols[j] \in ProtectedNames(file) THEN file.rows[i][j]
    ELSE CoerceCell(file.rows[i][j])

NullsAfterCoercion(file, j) ==
    Cardinality({i \in DOMAIN file.rows : IsNull(CoercedCell(file, i, j))})

TwoDistinctValues(file, j) ==
    \E i, k \in DOMAIN file.rows :
        /\ ~IsNull(CoercedCell(file, i, j))
        /\ ~IsNull(CoercedCell(file, k, j))
        /\ ~SameValue(CoercedCell(file, i, j), CoercedCell(file, k, j))

\* C8 as claimed: a column with k nulls after numeric coercion, of R rows, is
\* absent from the output of finalize exactly when 2k > R.
C8_DroppedIffMoreThanHalfNull ==
    FinalizedOk =>
        \A j \in DOMAIN call.before.cols :
            ~HasColumn(dataset, call.before.cols[j])
            <=> 2 * NullsAfterCoercion(call.before, j) > Len(call.before.rows)

\* C8 as amended: the more-than-50%-null step of finalize drops a column with k
\* nulls after numeric coercion, of R rows, exactly when 2k > R (2 of 4 is kept,
\* 3 of 5 is dropped); a column is in the output exactly when that step keeps
\* it and it is not a feature column with at most one distinct non-null value.
C8_NullThresholdIsStrict ==
    FinalizedOk =>
        LET file == call.before
            df == ReadCsvIndexed(file)
            dense == DropSparseColumns(CoerceFeatures(df, NonFeatureCols(df)))
        IN  /\ \A j \in DOMAIN file.cols :
                  LET k == NullsAfterCoercion(file, j)
                      R == Len(file.rows)
                  IN  /\ file.cols[j] \notin Range(dense.cols) <=> 2 * k > R
                      /\ HasColumn(dataset, file.cols[j]) <=>
                            /\ 2 * k <= R
                            /\ \/ file.cols[j] \in ProtectedNames(file)
                               \/ TwoDistinctValues(file, j)
            /\ file = FourRowExample => HasColumn(dataset, <<"f">>)
            /\ file = FiveRowExample => ~HasColumn(dataset, <<"f">>)

C8_Witness ==
    /\ FinalizedOk
    /\ call.before = FourRowExample
    /\ NullsAfterCoercion(call.before, 3) = 2
    /\ HasColumn(dataset, <<"f">>)

\* the rows a key column keeps: not null, and the first with their value
FirstOccurrences(coop) ==
    {i \in DOMAIN coop :
        /\ ~IsNull(coop[i])
        /\ \A k \in 1..(i - 1) : coop[k] # coop[i]}

\* C9: after a successful finalize of a table with a cooperativa column, no
\* remaining row has a null cooperativa, no two have the same one, the row kept
\* for each name is its first occurrence, and the survivors keep their order.
C9_KeyRowsUniqueFirstKept ==
    (FinalizedOk /\ HasColumn(call.before, COOPERATIVA)) =>
        LET coop == ColumnNamed(call.before, COOPERATIVA)
        IN  /\ call.index = KeepAt([i \in DOMAIN coop |-> i - 1], FirstOccurrences(coop))
            /\ Len(dataset.rows) = Cardinality(FirstOccurrences(coop))
            /\ HasColumn(dataset, COOPERATIVA)
            /\ ColumnNamed(dataset, COOPERATIVA) = KeepAt(coop, FirstOccurrences(coop))

\* C9 holds whenever at least half of the keys are present
C9_Witness ==
    /\ FinalizedOk
    /\ ColumnNamed(call.before, COOPERATIVA) = <<Text(<<"A">>), Null, Text(<<"A">>)>>
    /\ call.index = <<0>>
    /\ ColumnNamed(dataset, COOPERATIVA) = <<Text(<<"A">>)>>

FeatureNames(file) == Range(file.cols) \ ProtectedNames(file)

\* C10: finalize applied to an already-finalized dataset leaves the same set of
\* feature columns with equal values, for every input table, tables with
\* duplicate cooperativa rows included.
C10_SecondPassKeepsFeatures ==
    (FinalizedOk /\ call.nth = 2 /\ call.before.exists) =>
        /\ FeatureNames(dataset) = FeatureNames(call.before)
        /\ \A c \in FeatureNames(call.before) :
              LET old == ColumnNamed(call.before, c)
                  new == ColumnNamed(dataset, c)
              IN  /\ Len(new) = Len(old)
                  /\ \A i \in DOMAIN old : SameValue(new[i], old[i])

\* C10 holds of a table from which the first pass removed no row
C10_Witness ==
    /\ FinalizedOk
    /\ call.nth = 2
    /\ Len(dataset.rows) = 3
    /\ HasColumn(dataset, <<"f">>)
    /\ \A i \in 1..3 : SameValue(ColumnNamed(dataset, <<"f">>)[i],
                                 ColumnNamed(call.before, <<"f">>)[i])
    /\ ColumnNamed(dataset, <<"f">>)[1].num # 0

----------------------------------------------------------------------------
(* The normalizers as one-call programs: the argument is drawn from every  *)
(* text over a small alphabet plus the examples of the documentation.      *)

RatingAlphabet == {"A", "a", "B", "D", "+", "-", "*", "/", " ", "1"}

RatingInputs ==
    {PyStr(s) : s \in SeqsUpTo(RatingAlphabet, MaxRatingLen)
                      \cup {BBB_PLUS_D, AA_MINUS_MUTUALISTAS}}
    \cup {PyNone}

NameAlphabet == {"a", "B", "1", "/", "%", "_", " ", "é", "€"}

PATRIMONIO_ACTIVOS ==
    <<"P","a","t","r","i","m","o","n","i","o"," ","/"," ","A","c","t","i","v","o","s">>
MOROSIDAD_GENERAL ==
    <<"M","o","r","o","s","i","d","a","d"," ","G","e","n","e","r","a","l"," ","(","%",")">>

NameInputs ==
    {PyStr(s) : s \in SeqsUpTo(NameAlphabet, MaxNameLen)
                      \cup {PATRIMONIO_ACTIVOS, MOROSIDAD_GENERAL}}
    \cup {PyNone}


\* One call of a normalizer: the argument is chosen, then the function runs.
InitRating ==
    /\ dataset = NoFile
    /\ ret = <<>>
    /\ \E r \in RatingInputs : call = [op |-> "argument", arg |-> r]

NormalizeRating ==
    /\ call.op = "argument"
    /\ call' = [op |-> "normalize_rating", arg |-> call.arg]
    /\ ret' = normalize_rating(call.arg)
    /\ UNCHANGED dataset

InitName ==
    /\ dataset = NoFile
    /\ ret = <<>>
    /\ \E n \in NameInputs : call = [op |-> "argument", arg |-> n]

NormalizeName ==
    /\ call.op = "argument"
    /\ call' = [op |-> "normalize_feature_name", arg |-> call.arg]
    /\ ret' = normalize_feature_name(call.arg)
    /\ UNCHANGED dataset

SpecRating == InitRating /\ [][NormalizeRating]_vars
SpecName == InitName /\ [][NormalizeName]_vars

----------------------------------------------------------------------------
(* The Dataset Table over a run: the tools of dataset.py called in any      *)
(* order on one output path, starting without a file.  call.phase records   *)
(* how far the table has come: "none", "created" after a successful         *)
(* create_dataset, "finalized" after a successful finalize.                 *)

MaxCalls == 3

\* index mappings of a run: every row from source row 0, or every row unmatched
RunMappings ==
    {[i \in 1..n |-> v] : n \in 0..MaxEntities, v \in {0, -1}}
RunFeatureSources == {FeatureSource, WideSource}

\* abbreviation lists of a run: an entity without an abbreviation gets the
\* placeholder N/A
N_A == <<"N","/","A">>
RunAbbreviationLists == AbbreviationLists \cup {<<N_A>>, <<<<"X">>, N_A>>}

Init ==
    /\ dataset = NoFile
    /\ call = [op |-> "none", before |-> NoFile, cooperatives |-> <<>>,
               abbreviations |-> <<>>, n |-> 0, phase |-> "none",
               created |-> <<>>]
    /\ ret = ""

\* call.created: the lists of the last create_dataset call that wrote the file
CreateDataset ==
    /\ call.n < MaxCalls
    /\ \E c \in CooperativeLists, a \in RunAbbreviationLists :
          LET r == create_dataset(c, a, dataset)
          IN  /\ dataset' = r.file
              /\ ret' = r.ret
              /\ call' = [op |-> "create_dataset", before |-> dataset,
                          cooperatives |-> c, abbreviations |-> a,
                          n |-> call.n + 1,
                          created |-> IF IsError(r.ret) THEN call.created
                                      ELSE <<c, a>>,
                          phase |-> IF call.phase = "none" /\ r.file.exists
                                    THEN "created" ELSE call.phase]

RunAppendAlignedColumns ==
    /\ call.n < MaxCalls
    /\ \E source \in RunFeatureSources, m \in RunMappings :
          LET r == append_aligned_columns(source, m, dataset)
          IN  /\ dataset' = r.file
              /\ ret' = r.ret
              /\ call' = [call EXCEPT !.op = "append_aligned_columns",
                                      !.before = dataset, !.n = call.n + 1,
                                      !.cooperatives = <<>>, !.abbreviations = <<>>]

RunAppendCleanedRiskColumn ==
    /\ call.n < MaxCalls
    /\ \E m \in RunMappings :
          LET r == append_cleaned_risk_column(RiskSource, RATING, m, dataset)
          IN  /\ dataset' = r.file
              /\ ret' = r.ret
              /\ call' = [call EXCEPT !.op = "append_cleaned_risk_column",
                                      !.before = dataset, !.n = call.n + 1,
                                      !.cooperatives = <<>>, !.abbreviations = <<>>]

RunFinalize ==
    /\ call.n < MaxCalls
    /\ LET r == finalize_and_clean_dataset(dataset)
       IN  /\ dataset' = r.file
           /\ ret' = r.ret
           /\ call' = [call EXCEPT !.op = "finalize_and_clean_dataset",
                                   !.before = dataset, !.n = call.n + 1,
                                   !.cooperatives = <<>>, !.abbreviations = <<>>,
                                   !.phase = IF ~IsError(r.ret) THEN "finalized"
                                             ELSE call.phase]

Next ==
    \/ CreateDataset
    \/ RunAppendAlignedColumns
    \/ RunAppendCleanedRiskColumn
    \/ RunFinalize

Spec == Init /\ [][Next]_vars

----------------------------------------------------------------------------
(* Claims about the Dataset Table over a run.                              *)

\* C18: create_dataset with lists of different length returns an error and
\* writes nothing, an existing dataset file being left as it was; with lists
\* of equal length it writes exactly the columns cooperativa and abreviacion,
\* row i holding entities[i] and abbreviations[i].
C18_CreateDatasetChecksLengths ==
    call.op = "create_dataset" =>
        IF Len(call.cooperatives) # Len(call.abbreviations)
        THEN /\ IsError(ret)
             /\ dataset = call.before
        ELSE /\ ~IsError(ret)
             /\ dataset.exists
             /\ dataset.cols = <<COOPERATIVA, ABREVIACION>>
             /\ Len(dataset.rows) = Len(call.cooperatives)
             /\ \A i \in DOMAIN dataset.rows :
                   dataset.rows[i] = <<Text(call.cooperatives[i]),
                                       Text(call.abbreviations[i])>>

\* a mismatched call on a path that already holds a dataset with a feature column
C18_Witness ==
    /\ call.op = "create_dataset"
    /\ call.cooperatives = <<<<"A">>, <<"B">>>>
    /\ call.abbreviations = <<<<"X">>>>
    /\ call.before.exists
    /\ Len(call.before.cols) = 3
    /\ ret = "Error: Length mismatch"
    /\ dataset = call.before

AccumulatingOps ==
    {"create_dataset", "append_aligned_columns", "append_cleaned_risk_column"}
AppendOps == {"append_aligned_columns", "append_cleaned_risk_column"}

\* C19: the Dataset Table is created once, an append before create_dataset
\* fails and creates no file, and once finalize has run no create_dataset,
\* append_aligned_columns or append_cleaned_risk_column call changes the table.
C19_StrictLifecycle ==
    [][/\ (~dataset.exists /\ call'.op \in AppendOps) =>
              (IsError(ret') /\ ~dataset'.exists)
       /\ (call.phase # "none" /\ call'.op = "create_dataset") =>
              dataset' = dataset
       /\ (call.phase = "finalized" /\ call'.op \in AccumulatingOps) =>
              dataset' = dataset]_vars

\* a finalized table that a later append_aligned_columns has widened
C19_Witness ==
    /\ call.phase = "finalized"
    /\ call.op = "append_aligned_columns"
    /\ ~IsError(ret)
    /\ Len(dataset.cols) > Len(call.before.cols)

\* C20: in every state reached by create_dataset followed by appends, the
\* columns are cooperativa, abreviacion, then the feature columns, and a Label
\* column, once there, is the last column and the only one of that name.
C20_LabelIsTerminal ==
    (call.phase = "created" /\ dataset.exists) =>
        /\ Len(dataset.cols) >= 2
        /\ dataset.cols[1] = COOPERATIVA
        /\ dataset.cols[2] = ABREVIACION
        /\ LABEL \in Range(dataset.cols) =>
              /\ dataset.cols[Len(dataset.cols)] = LABEL
              /\ Cardinality({j \in DOMAIN dataset.cols : dataset.cols[j] = LABEL}) = 1

\* feature columns appended after the Label column
C20_Witness ==
    /\ call.phase = "created"
    /\ call.op = "append_aligned_columns"
    /\ dataset.cols = <<COOPERATIVA, ABREVIACION, LABEL, <<"f">>>>
    /\ Len(dataset.rows) = 2

\* C21: between create_dataset and finalize, whatever appends succeed or fail,
\* the table has the rows it was created with: as many rows as entities, row i
\* holding the i-th cooperativa and abreviacion passed to create_dataset, and
\* every column an append finds in the table keeps its values.
C21_RowsStayAsCreated ==
    (call.phase = "created" /\ dataset.exists) =>
        /\ Len(dataset.rows) = Len(call.created[1])
        /\ \A i \in DOMAIN dataset.rows :
              /\ dataset.rows[i][1] = Text(call.created[1][i])
              /\ dataset.rows[i][2] = Text(call.created[2][i])
        /\ call.op \in AppendOps =>
              /\ Len(call.before.cols) <= Len(dataset.cols)
              /\ \A j \in DOMAIN call.before.cols :
                    Column(dataset, j) = Column(call.before, j)

\* an append has rewritten a table created with the abbreviation N/A
C21_Witness ==
    /\ call.phase = "created"
    /\ call.op = "append_aligned_columns"
    /\ ~IsError(ret)
    /\ call.created = << <<<<"A">>, <<"B">>>>, <<<<"X">>, N_A>> >>
    /\ Len(dataset.cols) = 3
    /\ Len(call.before.cols) = 2
    /\ dataset.rows[2][2] = Null

\* C22: the column names of the table append_aligned_columns writes are
\* pairwise distinct, a name that is already in the destination being given a
\* numeric suffix.
C22_FeatureNamesDistinct ==
    (call.op = "append_aligned_columns" /\ ~IsError(ret)) =>
        \A j, k \in DOMAIN dataset.cols :
            dataset.cols[j] = dataset.cols[k] => j = k

\* the same source appended a second time
C22_Witness ==
    /\ call.op = "append_aligned_columns"
    /\ ~IsError(ret)
    /\ call.before.cols = <<COOPERATIVA, ABREVIACION, <<"f">>>>
    /\ dataset.cols = <<COOPERATIVA, ABREVIACION, <<"f">>, <<"f">>>>

----------------------------------------------------------------------------
(* Tabular Mutator: formats/csv.py.  Every tool reads the whole file with   *)
(* pd.read_csv, which infers a type for each column, and writes it back.   *)

\* a field read_csv parses as a number
IsNumericCell(c) == c.t = "num" \/ (c.t = "text" /\ IsDigits(c.txt))

\* the dtype read_csv gives a column: int64 for numbers without a gap, float64
\* for numbers with gaps and for a column of gaps only, object otherwise
ColumnDtype(col) ==
    IF col = <<>> THEN "object"
    ELSE IF \E i \in DOMAIN col : ~IsNull(col[i]) /\ ~IsNumericCell(col[i]) THEN "object"
    ELSE IF \E i \in DOMAIN col : IsNull(col[i]) THEN "float64"
    ELSE "int64"

\* the value read_csv gives a field of a column of that dtype
TypedCell(c, dtype) ==
    IF dtype # "object" /\ c.t = "text" THEN Num(ParseDigits(c.txt), 1, 1) ELSE c

ReadCsvTyped(file) ==
    LET parsed == [file EXCEPT !.rows = ParsedRows(file)]
        dtypes == [j \in DOMAIN file.cols |-> ColumnDtype(Column(parsed, j))]
    IN  [cols |-> MangleDupeCols(file.cols),
         rows |-> [i \in DOMAIN file.rows |->
                     [j \in DOMAIN file.cols |-> TypedCell(parsed.rows[i][j], dtypes[j])]],
         dtypes |-> dtypes]

\* Series.astype(str) on a typed column: 1 of an int64 column is '1', of a
\* float64 column '1.0'; NaN is 'nan'
AsStrTyped(c, dtype) ==
    IF c.t = "null" THEN <<"n","a","n">>
    ELSE IF c.t = "text" THEN c.txt
    ELSE IF dtype = "int64" THEN IntToChars(c.num)
    ELSE IntToChars(c.num) \o <<".", "0">>

\* the position before the longest run of digits that ends name
RECURSIVE DigitSuffixStart(_, _)
DigitSuffixStart(name, i) ==
    IF i >= 1 /\ name[i] \in Digits THEN DigitSuffixStart(name, i - 1) ELSE i

\* str.replace(r'\.\d+$', '', regex=True) on one name
StripDupSuffix(name) ==
    LET i == DigitSuffixStart(name, Len(name))
    IN  IF i < Len(name) /\ i >= 1 /\ name[i] = "."
        THEN SubSeq(name, 1, i - 1) ELSE name

\* a plausible slip: the suffix clean-up left out
delete_columns_keep_suffix(file, column_names) ==
    IF ~file.exists \/ file.cols = <<>> THEN Result(file, "Error deleting columns")
    ELSE
    LET df == ReadCsvTyped(file)
        to_drop == SelectSeq(column_names, LAMBDA c : c \in Range(df.cols))
        kept == {j \in DOMAIN df.cols : df.cols[j] \notin Range(to_drop)}
    IN  IF to_drop = <<>> THEN Result(file, "No matching columns found to delete")
        ELSE Result(ToCsv([cols |-> KeepAt(df.cols, kept),
                           rows |-> [i \in DOMAIN df.rows |-> KeepAt(df.rows[i], kept)]]),
                    "Successfully deleted columns")

delete_columns(file, column_names) ==
    IF ~file.exists \/ file.cols = <<>> THEN Result(file, "Error deleting columns")
    ELSE
    LET df == ReadCsvTyped(file)
        to_drop == SelectSeq(column_names, LAMBDA c : c \in Range(df.cols))
        kept == {j \in DOMAIN df.cols : df.cols[j] \notin Range(to_drop)}
        names == KeepAt(df.cols, kept)
    IN  IF to_drop = <<>> THEN Result(file, "No matching columns found to delete")
        ELSE Result(ToCsv([cols |-> [j \in DOMAIN names |-> StripDupSuffix(names[j])],
                           rows |-> [i \in DOMAIN df.rows |-> KeepAt(df.rows[i], kept)]]),
                    "Successfully deleted columns")

\* the rows of df whose cell in column j, as a string, is not listed
RowsNotListed(df, j, values_str) ==
    {i \in DOMAIN df.rows :
        AsStrTyped(df.rows[i][j], df.dtypes[j]) \notin Range(values_str)}

\* a plausible slip: the mask taken on the first column
delete_rows_by_values_first_column(file, column_index, values_to_delete) ==
    IF ~file.exists \/ file.cols = <<>> THEN Result(file, "Error deleting rows")
    ELSE
    LET df == ReadCsvTyped(file)
    IN  IF column_index >= Len(df.cols) THEN Result(file, "Column index out of bounds")
        ELSE IF ~PyIndexable(df.cols, column_index) THEN Result(file, "Error deleting rows")
        ELSE Result(ToCsv([cols |-> df.cols,
                           rows |-> KeepAt(df.rows, RowsNotListed(df, 1, values_to_delete))]),
                    "Successfully deleted rows")

\* df.columns[column_index] counts a negative index from the end and raises
\* IndexError below -len(df.columns)
delete_rows_by_values(file, column_index, values_to_delete) ==
    IF ~file.exists \/ file.cols = <<>> THEN Result(file, "Error deleting rows")
    ELSE
    LET df == ReadCsvTyped(file)
    IN  IF column_index >= Len(df.cols) THEN Result(file, "Column index out of bounds")
        ELSE IF ~PyIndexable(df.cols, column_index) THEN Result(file, "Error deleting rows")
        ELSE
        LET col_name == PyIndex(df.cols, column_index)
            j == ColIndex(df.cols, col_name)
        IN  Result(ToCsv([cols |-> df.cols,
                          rows |-> KeepAt(df.rows, RowsNotListed(df, j, values_to_delete))]),
                   "Successfully deleted rows")

rename_column(file, column_index, new_name) ==
    IF ~file.exists \/ file.cols = <<>> THEN Result(file, "Error renaming column")
    ELSE
    LET df == ReadCsvTyped(file)
    IN  IF column_index >= Len(df.cols) THEN Result(file, "Column index out of bounds")
        ELSE IF ~PyIndexable(df.cols, column_index) THEN Result(file, "Error renaming column")
        ELSE
        LET old_name == PyIndex(df.cols, column_index)
        IN  Result(ToCsv([cols |-> [j \in DOMAIN df.cols |->
                                       IF df.cols[j] = old_name THEN new_name
                                       ELSE df.cols[j]],
                          rows |-> df.rows]),
                   "Successfully renamed column")

\* list.remove(x): without the first element equal to x
ListRemove(xs, x) ==
    LET k == CHOOSE i \in DOMAIN xs : xs[i] = x /\ \A h \in 1..(i - 1) : xs[h] # x
    IN  SubSeq(xs, 1, k - 1) \o SubSeq(xs, k + 1, Len(xs))

\* list.insert(i, x) for 0 <= i <= len(xs)
ListInsert(xs, i, x) == SubSeq(xs, 1, i) \o <<x>> \o SubSeq(xs, i + 1, Len(xs))

\* df[cols]: the columns of df in the order of the names cols
SelectColumns(df, cols) ==
    [cols |-> cols,
     rows |-> [i \in DOMAIN df.rows |->
                 [j \in DOMAIN cols |-> df.rows[i][ColIndex(df.cols, cols[j])]]]]

\* a plausible slip: the name inserted before the old position is removed
move_column_to_index_insert_first(file, column_name, new_index) ==
    IF ~file.exists \/ file.cols = <<>> THEN Result(file, "Error moving column")
    ELSE
    LET df == ReadCsvTyped(file)
    IN  IF column_name \notin Range(df.cols) THEN Result(file, "Column not found in CSV")
        ELSE IF new_index < 0 \/ new_index >= Len(df.cols)
        THEN Result(file, "New index is out of bounds")
        ELSE LET k == ColIndex(df.cols, column_name)
                 ins == ListInsert(df.cols, new_index, column_name)
                 old == IF new_index < k THEN k + 1 ELSE k
                 cols == SubSeq(ins, 1, old - 1) \o SubSeq(ins, old + 1, Len(ins))
             IN  Result(ToCsv(SelectColumns(df, cols)), "Successfully moved column")

move_column_to_index(file, column_name, new_index) ==
    IF ~file.exists \/ file.cols = <<>> THEN Result(file, "Error moving column")
    ELSE
    LET df == ReadCsvTyped(file)
    IN  IF column_name \notin Range(df.cols) THEN Result(file, "Column not found in CSV")
        ELSE IF new_index < 0 \/ new_index >= Len(df.cols)
        THEN Result(file, "New index is out of bounds")
        ELSE LET cols == ListInsert(ListRemove(df.cols, column_name), new_index, column_name)
             IN  Result(ToCsv(SelectColumns(df, cols)), "Successfully moved column")

\* the suffix loop: counts[col] is the number of earlier columns of that name
DedupSuffix(new_columns, j) ==
    LET earlier == Cardinality({h \in 1..(j - 1) : new_columns[h] = new_columns[j]})
    IN  IF earlier = 0 THEN new_columns[j]
        ELSE new_columns[j] \o <<"_">> \o IntToChars(earlier)

HasDuplicates(names) == Cardinality(Range(names)) # Len(names)

normalize_csv_columns(file) ==
    IF ~file.exists \/ file.cols = <<>> THEN Result(file, "Error normalizing columns")
    ELSE
    LET df == ReadCsvTyped(file)
        original_columns == df.cols
        new_columns == [j \in DOMAIN df.cols |-> normalize_feature_name(PyStr(df.cols[j]))]
        deduped_columns == [j \in DOMAIN df.cols |-> DedupSuffix(new_columns, j)]
    IN  IF original_columns = new_columns
        THEN Result(file, "All columns are already normalized")
        ELSE Result(ToCsv([cols |-> IF HasDuplicates(new_columns) THEN deduped_columns
                                    ELSE new_columns,
                           rows |-> df.rows]),
                    "Successfully normalized columns")

----------------------------------------------------------------------------
(* The Tabular Mutator's inputs and its tools as one-call programs.         *)

MaxCsvRows == 2
MaxCsvCols == 3

F_DOT_1 == <<"f", ".", "1">>
K_1 == <<"k", "_", "1">>
F_PERCENT == <<"F", " ", "%">>

\* headers: plain, with a repeated name, with a name that carries the suffix
\* read_csv gives a repeated name, and with names that normalize to one name
CsvHeaders ==
    { <<<<"k">>, <<"f">>>>,
      <<<<"k">>, <<"f">>, <<"g">>>>,
      <<<<"k">>, <<"f">>, <<"f">>>>,
      <<<<"k">>, F_DOT_1, <<"g">>>>,
      <<<<"K">>, <<"k">>, K_1>>,
      <<<<"k">>, F_PERCENT>> }

CsvCells == {Text(<<"1">>), Text(<<"x">>), Null}

\* rows of a width: the first two cells vary, a third cell is the text 2
CsvRowsOf(width) ==
    {r \in [1..width -> CsvCells \cup {Text(<<"2">>)}] :
        \A j \in 1..width : IF j > 2 THEN r[j] = Text(<<"2">>) ELSE r[j] \in CsvCells}

CsvFiles ==
    {[exists |-> TRUE, cols |-> h, rows |-> rows] :
        h \in CsvHeaders, rows \in SeqsUpTo(CsvRowsOf(2) \cup CsvRowsOf(3), MaxCsvRows)}

CsvInputs ==
    {f \in CsvFiles : \A i \in DOMAIN f.rows : Len(f.rows[i]) = Len(f.cols)}
    \cup {NoFile}

ColumnNameLists ==
    { <<>>, <<<<"f">>>>, <<<<"g">>>>, <<<<"z">>>>, <<<<"f">>, <<"z">>>>,
      <<<<"k">>, <<"g">>>>, <<F_DOT_1>> }
ColumnNames == {<<"k">>, <<"f">>, <<"g">>, <<"z">>, F_DOT_1}
NewNames == {<<"f">>, <<"n">>}
ColumnIndexes == (0 - MaxCsvCols - 1)..MaxCsvCols
ONE_POINT_ZERO == <<"1", ".", "0">>
NAN == <<"n", "a", "n">>
ValueLists ==
    { <<>>, <<<<"1">>>>, <<ONE_POINT_ZERO>>, <<<<"x">>>>, <<NAN>>, <<<<"1">>, <<"x">>>> }

NoCsvCall ==
    [op |-> "none", before |-> NoFile, column_names |-> <<>>, column_index |-> 0,
     values_to_delete |-> <<>>, name |-> <<>>]

InitCsv ==
    /\ dataset \in CsvInputs
    /\ call = NoCsvCall
    /\ ret = ""

DeleteColumns ==
    /\ call.op = "none"
    /\ \E names \in ColumnNameLists :
          LET r == delete_columns(dataset, names)
          IN  /\ dataset' = r.file
              /\ ret' = r.ret
              /\ call' = [NoCsvCall EXCEPT !.op = "delete_columns", !.before = dataset,
                                           !.column_names = names]

DeleteRowsByValues ==
    /\ call.op = "none"
    /\ \E column_index \in ColumnIndexes, values \in ValueLists :
          LET r == delete_rows_by_values(dataset, column_index, values)
          IN  /\ dataset' = r.file
              /\ ret' = r.ret
              /\ call' = [NoCsvCall EXCEPT !.op = "delete_rows_by_values",
                                           !.before = dataset,
                                           !.column_index = column_index,
                                           !.values_to_delete = values]

RenameColumn ==
    /\ call.op = "none"
    /\ \E column_index \in ColumnIndexes, new_name \in NewNames :
          LET r == rename_column(dataset, column_index, new_name)
          IN  /\ dataset' = r.file
              /\ ret' = r.ret
              /\ call' = [NoCsvCall EXCEPT !.op = "rename_column", !.before = dataset,
                                           !.column_index = column_index,
                                           !.name = new_name]

MoveColumnToIndex ==
    /\ call.op = "none"
    /\ \E column_name \in ColumnNames, new_index \in ColumnIndexes :
          LET r == move_column_to_index(dataset, column_name, new_index)
          IN  /\ dataset' = r.file
              /\ ret' = r.ret
              /\ call' = [NoCsvCall EXCEPT !.op = "move_column_to_index",
                                           !.before = dataset,
                                           !.column_index = new_index,
                                           !.name = column_name]

NormalizeCsvColumns ==
    /\ call.op = "none"
    /\ LET r == normalize_csv_columns(dataset)
       IN  /\ dataset' = r.file
           /\ ret' = r.ret
           /\ call' = [NoCsvCall EXCEPT !.op = "normalize_csv_columns",
                                        !.before = dataset]

SpecCsv ==
    InitCsv /\ [][DeleteColumns \/ DeleteRowsByValues \/ RenameColumn
                  \/ MoveColumnToIndex \/ NormalizeCsvColumns]_vars

----------------------------------------------------------------------------
(* Claims about the Tabular Mutator.  The table of a file is the table      *)
(* read_csv makes of it: a repeated header name is read as name, name.1,   *)
(* and a field that holds a number is that number however it is written.   *)

\* the value of a field: the number it holds, or itself
FieldValue(c) ==
    IF c.t = "text" /\ IsDigits(c.txt) THEN Num(ParseDigits(c.txt), 1, 1) ELSE c
RowValues(row) == [j \in DOMAIN row |-> FieldValue(row[j])]
TableValues(rows) == [i \in DOMAIN rows |-> RowValues(rows[i])]

\* the messages of the except branches
IsFault(message) ==
    message \in {"Error deleting columns", "Error deleting rows", "Error renaming column",
                 "Error moving column", "Error normalizing columns"}

\* C13: delete_columns removes exactly the listed columns that exist; the rest
\* keep their order and values, and their names but for a stripped trailing
\* '.<digits>'; absent names are no error, and when no listed name exists the
\* file is left unchanged.
C13_DeleteColumnsFrame ==
    (call.op = "delete_columns" /\ call.before.exists) =>
        LET names == MangleDupeCols(call.before.cols)
            kept == {j \in DOMAIN names : names[j] \notin Range(call.column_names)}
        IN  /\ ~IsFault(ret)
            /\ IF kept = DOMAIN names THEN dataset = call.before
               ELSE /\ dataset.exists
                    /\ dataset.cols =
                         [j \in 1..Cardinality(kept) |-> StripDupSuffix(KeepAt(names, kept)[j])]
                    /\ Len(dataset.rows) = Len(call.before.rows)
                    /\ \A i \in DOMAIN dataset.rows :
                          RowValues(dataset.rows[i])
                              = RowValues(KeepAt(call.before.rows[i], kept))

\* the first of two columns named f deleted, with an absent name listed too
C13_Witness ==
    /\ call.op = "delete_columns"
    /\ call.before.cols = <<<<"k">>, <<"f">>, <<"f">>>>
    /\ call.column_names = <<<<"f">>, <<"z">>>>
    /\ Len(call.before.rows) = 2
    /\ dataset.cols = <<<<"k">>, <<"f">>>>
    /\ Len(dataset.rows) = 2

\* C14: delete_rows_by_values removes the rows, and only the rows, whose value
\* in the indexed column, rendered as a string, is one of the listed values;
\* the other rows keep their order and contents.  With column_index >=
\* column_count it returns an 'out of bounds' result and the file is unchanged.
C14_DeleteRowsByValues ==
    (call.op = "delete_rows_by_values" /\ call.before.exists) =>
        LET df == ReadCsvTyped(call.before)
            j == call.column_index + 1
            kept == {i \in DOMAIN df.rows :
                        AsStrTyped(df.rows[i][j], df.dtypes[j])
                            \notin Range(call.values_to_delete)}
        IN  /\ call.column_index >= Len(df.cols) =>
                  /\ ret = "Column index out of bounds"
                  /\ dataset = call.before
            /\ (0 <= call.column_index /\ call.column_index < Len(df.cols)) =>
                  /\ ret = "Successfully deleted rows"
                  /\ dataset.cols = df.cols
                  /\ TableValues(dataset.rows) = TableValues(KeepAt(call.before.rows, kept))

\* the gap of a numeric column deleted as 'nan', the number beside it kept
C14_Witness ==
    /\ call.op = "delete_rows_by_values"
    /\ call.column_index = 1
    /\ call.values_to_delete = <<NAN>>
    /\ Len(call.before.cols) = 2
    /\ call.before.rows = << <<Text(<<"x">>), Text(<<"1">>)>>, <<Text(<<"x">>), Null>> >>
    /\ Len(dataset.rows) = 1
    /\ RowValues(dataset.rows[1]) = <<Text(<<"x">>), Num(1, 1, 1)>>

\* C15: rename_column succeeds only for column_index in [0, column_count) and
\* then renames exactly that position, every other name, the order and the data
\* unchanged; for every other index, too large or negative, it returns a
\* failure message and leaves the file unchanged.
C15_RenameByPosition ==
    (call.op = "rename_column" /\ call.before.exists) =>
        LET names == MangleDupeCols(call.before.cols)
        IN  IF 0 <= call.column_index /\ call.column_index < Len(names)
            THEN /\ ret = "Successfully renamed column"
                 /\ dataset.cols = [names EXCEPT ![call.column_index + 1] = call.name]
                 /\ TableValues(dataset.rows) = TableValues(call.before.rows)
            ELSE /\ ret # "Successfully renamed column"
                 /\ dataset = call.before

\* index -1 renames the last column
C15_Witness ==
    /\ call.op = "rename_column"
    /\ call.column_index = -1
    /\ call.name = <<"n">>
    /\ call.before.cols = <<<<"k">>, <<"f">>>>
    /\ ret = "Successfully renamed column"
    /\ dataset.cols = <<<<"k">>, <<"n">>>>

\* the names other than name, in order
Without(names, name) == SelectSeq(names, LAMBDA c : c # name)

\* C16: move_column_to_index fails with a message and leaves the file unchanged
\* when column_name is absent or new_index is outside [0, column_count);
\* otherwise the named column is at position new_index, the other columns keep
\* their relative order, and the set of columns and all cell values are unchanged.
C16_MoveColumn ==
    (call.op = "move_column_to_index" /\ call.before.exists) =>
        LET names == MangleDupeCols(call.before.cols)
        IN  IF \/ call.name \notin Range(names)
               \/ call.column_index < 0
               \/ call.column_index >= Len(names)
            THEN /\ ret # "Successfully moved column"
                 /\ dataset = call.before
            ELSE /\ ret = "Successfully moved column"
                 /\ Len(dataset.cols) = Len(names)
                 /\ dataset.cols[call.column_index + 1] = call.name
                 /\ Without(dataset.cols, call.name) = Without(names, call.name)
                 /\ Len(dataset.rows) = Len(call.before.rows)
                 /\ \A i \in DOMAIN dataset.rows : \A j \in DOMAIN dataset.cols :
                       FieldValue(dataset.rows[i][j])
                           = FieldValue(call.before.rows[i][ColIndex(names, dataset.cols[j])])

\* the first column moved to the end, its cells with it
C16_Witness ==
    /\ call.op = "move_column_to_index"
    /\ call.name = <<"k">>
    /\ call.column_index = 2
    /\ call.before.cols = <<<<"k">>, <<"f">>, <<"g">>>>
    /\ Len(call.before.rows) = 1
    /\ call.before.rows[1][1] = Text(<<"x">>)
    /\ dataset.cols = <<<<"f">>, <<"g">>, <<"k">>>>
    /\ dataset.rows[1][3] = Text(<<"x">>)

\* C17: after normalize_csv_columns the column names of the file are pairwise
\* distinct: each is the Name Normalizer's output for the original name, the
\* k-th later column of a repeated output carrying the suffix _k; when no name
\* would change the file is left as it was.
C17_NormalizedNamesDistinct ==
    (call.op = "normalize_csv_columns" /\ call.before.exists) =>
        LET names == MangleDupeCols(call.before.cols)
            norm == [j \in DOMAIN names |-> normalize_feature_name(PyStr(names[j]))]
            nth(j) == Cardinality({h \in 1..(j - 1) : norm[h] = norm[j]})
        IN  /\ ~HasDuplicates(dataset.cols)
            /\ IF norm = names THEN dataset = call.before
               ELSE /\ dataset.cols =
                         [j \in DOMAIN names |->
                             IF nth(j) = 0 THEN norm[j]
                             ELSE norm[j] \o <<"_">> \o IntToChars(nth(j))]
                    /\ TableValues(dataset.rows) = TableValues(call.before.rows)

\* K and k both normalize to k, and the suffixed k_1 meets the column k_1
C17_Witness ==
    /\ call.op = "normalize_csv_columns"
    /\ call.before.cols = <<<<"K">>, <<"k">>, K_1>>
    /\ ret = "Successfully normalized columns"
    /\ dataset.cols = <<<<"k">>, K_1, K_1>>

----------------------------------------------------------------------------
(* Merge Engine: transform/merger.py merge_and_clean_csvs.  A frame is its  *)
(* column names, its rows and the dtype read_csv gave each column.         *)

\* how often name occurs in names
NameCount(names, name) == Cardinality({j \in DOMAIN names : names[j] = name})

IsNumberDtype(dtype) == dtype \in {"int64", "float64"}

\* df.rename(columns={df.columns[0]: 'cooperativa'})
RenameKeyColumn(df) == [df EXCEPT !.cols = [df.cols EXCEPT ![1] = COOPERATIVA]]

\* merge keys: equal values match, and a missing key matches a missing key
KeyEq(a, b) == (IsNull(a) /\ IsNull(b)) \/ (~IsNull(a) /\ ~IsNull(b) /\ SameValue(a, b))

\* a plausible slip: repeated keys of a source left in
DropDuplicateKeyRows_none(df) == df

\* df_curr.drop_duplicates(subset=['cooperativa'], keep='first')
DropDuplicateKeyRows(df) ==
    LET k == ColIndex(df.cols, COOPERATIVA)
    IN  [df EXCEPT !.rows =
            KeepAt(df.rows, {i \in DOMAIN df.rows :
                \A h \in 1..(i - 1) : ~KeyEq(df.rows[h][k], df.rows[i][k])})]

\* pd.merge raises when the key is missing or repeated on a side, and when one
\* key column holds numbers and the other strings
MergeRaises(left, right) ==
    \/ NameCount(left.cols, COOPERATIVA) # 1
    \/ NameCount(right.cols, COOPERATIVA) # 1
    \/ /\ left.rows # <<>>
       /\ right.rows # <<>>
       /\ IsNumberDtype(left.dtypes[ColIndex(left.cols, COOPERATIVA)])
            # IsNumberDtype(right.dtypes[ColIndex(right.cols, COOPERATIVA)])

\* the columns of a side after the merge: a name on both sides gets the suffix
SuffixedCols(cols, other, suffix) ==
    [j \in DOMAIN cols |->
        IF cols[j] # COOPERATIVA /\ cols[j] \in Range(other)
        THEN cols[j] \o suffix ELSE cols[j]]

\* s without its k-th element
DropAt(s, k) == SubSeq(s, 1, k - 1) \o SubSeq(s, k + 1, Len(s))

\* the rows a left row makes: one per matching right row, or one padded with
\* nulls when nothing matches
JoinedRows(left_row, lk, right, rk) ==
    LET matches == KeepAt(right.rows, {m \in DOMAIN right.rows :
                                          KeyEq(left_row[lk], right.rows[m][rk])})
    IN  IF matches = <<>>
        THEN <<left_row \o [j \in 1..(Len(right.cols) - 1) |-> Null]>>
        ELSE [m \in DOMAIN matches |-> left_row \o DropAt(matches[m], rk)]

RECURSIVE JoinFrom(_, _, _, _, _)
JoinFrom(left, lk, right, rk, i) ==
    IF i > Len(left.rows) THEN <<>>
    ELSE JoinedRows(left.rows[i], lk, right, rk) \o JoinFrom(left, lk, right, rk, i + 1)

\* pd.merge(df_master, df_curr, on='cooperativa', how='left')
LeftMerge(left, right) ==
    LET lk == ColIndex(left.cols, COOPERATIVA)
        rk == ColIndex(right.cols, COOPERATIVA)
    IN  [cols |-> SuffixedCols(left.cols, right.cols, <<"_", "x">>)
                    \o DropAt(SuffixedCols(right.cols, left.cols, <<"_", "y">>), rk),
         rows |-> JoinFrom(left, lk, right, rk, 1),
         dtypes |-> left.dtypes \o DropAt(right.dtypes, rk)]

Unreadable(file) == ~file.exists \/ file.cols = <<>>

\* the loop over files[1:]: ok is FALSE once a read or a merge has raised
RECURSIVE MergeFrom(_, _, _)
MergeFrom(df_master, files, i) ==
    IF i > Len(files) THEN [ok |-> TRUE, df |-> df_master]
    ELSE IF Unreadable(files[i]) THEN [ok |-> FALSE, df |-> df_master]
    ELSE LET df_curr == ReadCsvTyped(files[i])
         IN  IF df_curr.rows = <<>> THEN MergeFrom(df_master, files, i + 1)
             ELSE LET keyed == RenameKeyColumn(df_curr)
                  IN  IF NameCount(keyed.cols, COOPERATIVA) # 1 \/ MergeRaises(df_master, keyed)
                      THEN [ok |-> FALSE, df |-> df_master]
                      ELSE MergeFrom(LeftMerge(df_master, DropDuplicateKeyRows(keyed)),
                                     files, i + 1)

\* the table after the joins, from the files of the folder in name order
MergedTable(files) ==
    IF Unreadable(files[1]) THEN [ok |-> FALSE, df |-> <<>>]
    ELSE LET read == ReadCsvTyped(files[1])
             df_master == IF read.rows # <<>> THEN RenameKeyColumn(read) ELSE read
         IN  MergeFrom(df_master, files, 2)

\* the columns J of a frame, with their dtypes
KeepFrameColumns(df, J) ==
    [cols |-> KeepAt(df.cols, J),
     rows |-> [i \in DOMAIN df.rows |-> KeepAt(df.rows[i], J)],
     dtypes |-> KeepAt(df.dtypes, J)]

\* df_master.dropna(axis=1, how='all')
DropAllNullColumns(df) ==
    KeepFrameColumns(df, {j \in DOMAIN df.cols :
                            \E i \in DOMAIN df.rows : ~IsNull(df.rows[i][j])})

\* numeric columns with (df_master[col] == 0).all(); NaN == 0 is False
DropAllZeroColumns(df) ==
    KeepFrameColumns(df, {j \in DOMAIN df.cols :
        ~(/\ IsNumberDtype(df.dtypes[j])
          /\ \A i \in DOMAIN df.rows :
                df.rows[i][j].t = "num" /\ df.rows[i][j].num = 0)})

\* a plausible slip: nunique counted with the gaps (dropna=False)
DropConstantColumns_counting_gaps(df) ==
    KeepFrameColumns(df, {j \in DOMAIN df.cols :
        \E i, h \in DOMAIN df.rows : ~KeyEq(df.rows[i][j], df.rows[h][j])})

\* columns with df_master[col].nunique(dropna=True) <= 1
DropConstantColumns(df) ==
    KeepFrameColumns(df, {j \in DOMAIN df.cols : ~AtMostOneValue(Column(df, j))})

CleanMerged(df) == DropConstantColumns(DropAllZeroColumns(DropAllNullColumns(df)))

merge_and_clean_csvs(files, out) ==
    IF files = <<>> THEN Result(out, "No CSV files found")
    ELSE LET merged == MergedTable(files)
         IN  IF ~merged.ok THEN Result(out, "Error during merge process")
             ELSE Result(ToCsv(CleanMerged(merged.df)),
                         "Successfully merged and cleaned data")

----------------------------------------------------------------------------
(* The Merge Engine's inputs: a temporary folder of CSV files in name       *)
(* order, the first the master.                                            *)

MaxMergeRows == 2
MaxSources == 2

ID == <<"i", "d">>

MasterRows == {<<Text(k), f>> : k \in EntityNames, f \in {Text(<<"0">>), Text(<<"1">>), Null}}

\* masters: every table of entity and f, and the special cases: a row without
\* a name, numbers as names, no rows (first column named cooperativa or not)
MasterFiles ==
    {[exists |-> TRUE, cols |-> <<NAME, <<"f">>>>, rows |-> rows] :
        rows \in SeqsUpTo(MasterRows, MaxMergeRows)}
    \cup {[exists |-> TRUE, cols |-> <<NAME, <<"f">>>>,
           rows |-> << <<Null, Text(<<"1">>)>>, <<Text(<<"A">>), Text(<<"2">>)>> >>],
          [exists |-> TRUE, cols |-> <<NAME, <<"f">>>>,
           rows |-> << <<Text(<<"1">>), Text(<<"1">>)>>, <<Text(<<"2">>), Text(<<"2">>)>> >>],
          [exists |-> TRUE, cols |-> <<COOPERATIVA, <<"f">>>>, rows |-> <<>>],
          NoFile}

\* sources: a repeated key and a key the master lacks; the master's column
\* name f again, rows in another order; a column of zeros; a file without
\* rows; a row without a name and a constant column; numbers as names
SourceFiles ==
    {[exists |-> TRUE, cols |-> <<ID, <<"g">>>>,
      rows |-> << <<Text(<<"A">>), Text(<<"1">>)>>, <<Text(<<"A">>), Text(<<"2">>)>>,
                  <<Text(<<"C">>), Text(<<"3">>)>> >>],
     [exists |-> TRUE, cols |-> <<NAME, <<"f">>>>,
      rows |-> << <<Text(<<"B">>), Text(<<"x">>)>>, <<Text(<<"A">>), Text(<<"y">>)>> >>],
     [exists |-> TRUE, cols |-> <<ID, <<"z">>>>,
      rows |-> << <<Text(<<"A">>), Text(<<"0">>)>>, <<Text(<<"B">>), Text(<<"0">>)>> >>],
     [exists |-> TRUE, cols |-> <<ID, <<"h">>>>, rows |-> <<>>],
     [exists |-> TRUE, cols |-> <<ID, <<"n">>>>,
      rows |-> << <<Null, Text(<<"5">>)>>, <<Text(<<"A">>), Text(<<"5">>)>> >>],
     [exists |-> TRUE, cols |-> <<ID, <<"m">>>>,
      rows |-> << <<Text(<<"1">>), Text(<<"7">>)>>, <<Text(<<"3">>), Text(<<"8">>)>> >>]}

TempFolders ==
    {<<>>} \cup {<<master>> \o sources :
                    master \in MasterFiles, sources \in SeqsUpTo(SourceFiles, MaxSources)}

InitMerge ==
    /\ dataset = NoFile
    /\ call \in {[op |-> "none", files |-> files] : files \in TempFolders}
    /\ ret = ""

MergeAndCleanCsvs ==
    /\ call.op = "none"
    /\ LET r == merge_and_clean_csvs(call.files, dataset)
       IN  /\ dataset' = r.file
           /\ ret' = r.ret
           /\ call' = [call EXCEPT !.op = "merge_and_clean_csvs"]

SpecMerge == InitMerge /\ [][MergeAndCleanCsvs]_vars

----------------------------------------------------------------------------
(* Claims about the Merge Engine.                                          *)

MergedOk ==
    call.op = "merge_and_clean_csvs" /\ ret = "Successfully merged and cleaned data"

\* the master as read, its first column the key
MasterOf(files) ==
    LET read == ReadCsvTyped(files[1])
    IN  IF read.rows # <<>> THEN RenameKeyColumn(read) ELSE read

\* what a source gives a master row: the cells, without the key, of its first
\* row with the master row's key, or nulls when it has no such row
FirstMatch(key, source) ==
    LET matching == {m \in DOMAIN source.rows : KeyEq(key, source.rows[m][1])}
    IN  IF matching = {} THEN [j \in 1..(Len(source.cols) - 1) |-> Null]
        ELSE Tail(source.rows[CHOOSE m \in matching : \A h \in matching : m <= h])

\* a master row followed by what each source with rows gives it, in file order
RECURSIVE ExpectedCells(_, _, _)
ExpectedCells(key, files, i) ==
    IF i > Len(files) THEN <<>>
    ELSE LET source == ReadCsvTyped(files[i])
         IN  (IF source.rows = <<>> THEN <<>> ELSE FirstMatch(key, source))
             \o ExpectedCells(key, files, i + 1)

\* C11: after the joins the merged table has exactly the master's rows in the
\* master's order; a source with repeated keys gives only its first row per
\* key, source rows with a key the master lacks add nothing, and a master row
\* without a match in a source has nulls in that source's columns.
C11_MergeKeepsMasterRows ==
    MergedOk =>
        LET master == MasterOf(call.files)
            merged == MergedTable(call.files).df
        IN  /\ Len(merged.rows) = Len(master.rows)
            /\ Len(dataset.rows) = Len(master.rows)
            /\ \A i \in DOMAIN merged.rows :
                  merged.rows[i]
                      = master.rows[i] \o ExpectedCells(master.rows[i][1], call.files, 2)

\* a source with the key A twice and a key C the master lacks: row A takes
\* the first A row, row B nulls
C11_Witness ==
    /\ MergedOk
    /\ Len(call.files) = 2
    /\ call.files[1].rows = << <<Text(<<"A">>), Text(<<"0">>)>>, <<Text(<<"B">>), Text(<<"1">>)>> >>
    /\ call.files[2].cols = <<ID, <<"g">>>>
    /\ MergedTable(call.files).df.rows
          = << <<Text(<<"A">>), Num(0, 1, 1), Num(1, 1, 1)>>,
               <<Text(<<"B">>), Num(1, 1, 1), Null>> >>
    /\ Len(dataset.rows) = 2

\* at least two distinct non-null values
Varies(col) ==
    \E i, h \in DOMAIN col : ~IsNull(col[i]) /\ ~IsNull(col[h]) /\ ~SameValue(col[i], col[h])

\* C12: after the cleaning a column of the merged table is in the output if
\* and only if it has at least two distinct non-null values; the columns kept
\* keep their order and their cells.
C12_OutputColumnsVary ==
    MergedOk =>
        LET merged == MergedTable(call.files).df
            kept == {j \in DOMAIN merged.cols : Varies(Column(merged, j))}
        IN  /\ dataset.cols = KeepAt(merged.cols, kept)
            /\ dataset.rows = [i \in DOMAIN merged.rows |-> KeepAt(merged.rows[i], kept)]

\* a column of zeros, a column with a gap and a constant column all dropped,
\* the key and f kept
C12_Witness ==
    /\ MergedOk
    /\ Len(call.files) = 3
    /\ call.files[2].cols = <<ID, <<"z">>>>
    /\ call.files[3].cols = <<ID, <<"n">>>>
    /\ MergedTable(call.files).df.cols = <<COOPERATIVA, <<"f">>, <<"z">>, <<"n">>>>
    /\ Len(dataset.rows) = 2
    /\ dataset.cols = <<COOPERATIVA, <<"f">>>>

\* C24: for a folder with at least one CSV file the first file in name order
\* is the master and its first column is named cooperativa before any join,
\* a master without rows included, so that every later file with rows is
\* joined on cooperativa; files without rows are skipped and do not fail the
\* merge.
C24_MasterKeyedWhateverItsRows ==
    (/\ call.op = "merge_and_clean_csvs"
     /\ call.files # <<>>
     /\ \A i \in DOMAIN call.files : ~Unreadable(call.files[i])) =>
        LET keyed == MergeFrom(RenameKeyColumn(ReadCsvTyped(call.files[1])), call.files, 2)
        IN  keyed.ok =>
               /\ MergedOk
               /\ dataset = ToCsv(CleanMerged(keyed.df))

\* a master with a header and no rows, then a source with rows
C24_Witness ==
    /\ call.op = "merge_and_clean_csvs"
    /\ Len(call.files) = 2
    /\ call.files[1] = [exists |-> TRUE, cols |-> <<NAME, <<"f">>>>, rows |-> <<>>]
    /\ call.files[2].cols = <<ID, <<"g">>>>
    /\ ret = "Error during merge process"
    /\ ~dataset.exists

\* C29: the table merge_and_clean_csvs writes always has the key column
\* cooperativa, with the master's key of every master row, a master of one
\* row or of one entity name included: the cleaning removes feature columns
\* only.
C29_KeyColumnSurvivesCleaning ==
    MergedOk =>
        LET master == MasterOf(call.files)
        IN  /\ COOPERATIVA \in Range(dataset.cols)
            /\ Len(dataset.rows) = Len(master.rows)
            /\ \A i \in DOMAIN master.rows :
                  SameValue(dataset.rows[i][ColIndex(dataset.cols, COOPERATIVA)],
                            master.rows[i][1])

\* a master whose two rows carry the same entity name: f is written, the key
\* is not
C29_Witness ==
    /\ MergedOk
    /\ call.files = << [exists |-> TRUE, cols |-> <<NAME, <<"f">>>>,
                        rows |-> << <<Text(<<"A">>), Text(<<"0">>)>>,
                                    <<Text(<<"A">>), Text(<<"1">>)>> >>] >>
    /\ dataset.cols = <<<<"f">>>>
    /\ Len(dataset.rows) = 2

----------------------------------------------------------------------------
(* Two Tabular Mutator calls on one path at the same time.  A call reads    *)
(* the whole file (pd.read_csv), computes, and writes the whole file        *)
(* (df.to_csv): the file is opened, which empties it, and gets its content  *)
(* when it is closed.  Nothing orders the steps of two calls.  call.events  *)
(* records the steps taken, in order.                                       *)

Procs == {1, 2}

\* a file that is open for writing and has no content yet
EmptyFile == [exists |-> TRUE, cols |-> <<>>, rows |-> <<>>]

\* a file whose content is the end of one write after the start of another
TornFile == [exists |-> TRUE, cols |-> << <<"?">> >>, rows |-> <<>>]

\* a plausible slip: the table of an earlier load is used again
FreshRead_cached(file, cached) == cached

\* pd.read_csv(file_path) at the start of every call: the file as it is now
FreshRead(file, cached) == file

MutatorOps ==
    {[op |-> "delete_columns", column_names |-> names, column_index |-> 0, name |-> <<>>] :
        names \in {<<<<"f">>>>, <<<<"g">>>>, <<<<"z">>>>}}
    \cup {[op |-> "rename_column", column_names |-> <<>>, column_index |-> i, name |-> <<"n">>] :
            i \in {0, 1, 3}}

\* what the call does with the table it has read
MutatorResult(op, file) ==
    IF op.op = "delete_columns" THEN delete_columns(file, op.column_names)
    ELSE rename_column(file, op.column_index, op.name)

\* the call reaches its df.to_csv
Writes(r) == r.ret \in {"Successfully deleted columns", "Successfully renamed column"}

RaceFiles ==
    {[exists |-> TRUE, cols |-> <<<<"k">>, <<"f">>, <<"g">>>>,
      rows |-> << <<Text(<<"x">>), Text(<<"1">>), Text(<<"2">>)>> >>],
     [exists |-> TRUE, cols |-> <<<<"k">>, <<"f">>>>,
      rows |-> << <<Text(<<"x">>), Text(<<"1">>)>>, <<Null, Text(<<"x">>)>> >>]}

InitRace ==
    /\ dataset \in RaceFiles
    /\ \E ops \in [Procs -> MutatorOps] :
          call = [op |-> "race", initial |-> dataset, events |-> <<>>,
                  procs |-> [p \in Procs |->
                               [op |-> ops[p], pc |-> "start", snapshot |-> NoFile,
                                ret |-> ""]]]
    /\ ret = ""

\* the call of p reads the file and computes; without a write to do it returns
RaceRead(p) ==
    /\ call.procs[p].pc = "start"
    /\ LET df == FreshRead(dataset, call.initial)
           r == MutatorResult(call.procs[p].op, df)
       IN  /\ call' = [call EXCEPT
                          !.events = Append(@, <<"read", p>>),
                          !.procs[p] = [@ EXCEPT !.pc = IF Writes(r) THEN "read" ELSE "done",
                                                 !.snapshot = df,
                                                 !.ret = r.ret]]
           /\ ret' = IF Writes(r) THEN ret ELSE r.ret
    /\ UNCHANGED dataset

\* df.to_csv opens the file for writing: its content is gone
RaceOpen(p) ==
    /\ call.procs[p].pc = "read"
    /\ dataset' = EmptyFile
    /\ call' = [call EXCEPT !.events = Append(@, <<"open", p>>),
                            !.procs[p].pc = "writing"]
    /\ UNCHANGED ret

\* df.to_csv closes the file: the table computed from what the call read is
\* its content, unless the other call has written since the file was opened,
\* when the content can also be a mix of the two
RaceClose(p) ==
    /\ call.procs[p].pc = "writing"
    /\ LET r == MutatorResult(call.procs[p].op, call.procs[p].snapshot)
       IN  /\ dataset' \in IF dataset = EmptyFile THEN {r.file} ELSE {r.file, TornFile}
           /\ ret' = r.ret
    /\ call' = [call EXCEPT !.events = Append(@, <<"close", p>>),
                            !.procs[p].pc = "done"]

RaceStep == \E p \in Procs : RaceRead(p) \/ RaceOpen(p) \/ RaceClose(p)

SpecRace == InitRace /\ [][RaceStep]_vars

\* both calls have returned
BothReturned == call.op = "race" /\ \A p \in Procs : call.procs[p].pc = "done"

\* both calls read before either opened the file
BothReadFirst ==
    /\ Len(call.events) >= 2
    /\ call.events[1][1] = "read"
    /\ call.events[2][1] = "read"

\* no call opened the file while the other had it open
WritesInTurn ==
    \A i \in DOMAIN call.events :
        call.events[i][1] = "open" =>
            (i < Len(call.events) /\ call.events[i + 1] = <<"close", call.events[i][2]>>)

\* every step of a comes before every step of b
OneAtATime(a, b) ==
    \A i, j \in DOMAIN call.events :
        (call.events[i][2] = a /\ call.events[j][2] = b) => i < j

LastWriter == call.events[Len(call.events)][2]

\* C27: a mutating call is an unlocked read, transform, overwrite cycle.  When
\* two calls on one path both read before either writes, the file in the end
\* is the later writer's transformation of the file as it was, the other
\* update lost; when one call runs after the other, the second reads the
\* first's result and the file in the end has both transformations.
C27_LostUpdateUnlessOneAtATime ==
    BothReturned =>
        /\ (BothReadFirst /\ WritesInTurn /\ call.events[Len(call.events)][1] = "close") =>
               dataset = MutatorResult(call.procs[LastWriter].op, call.initial).file
        /\ \A a, b \in Procs :
              (a # b /\ OneAtATime(a, b)) =>
                  LET first == MutatorResult(call.procs[a].op, call.initial).file
                  IN  /\ call.procs[b].snapshot = first
                      /\ dataset = MutatorResult(call.procs[b].op, first).file

\* delete f and delete g, both read at the start: only g is gone in the end
C27_Witness ==
    /\ BothReturned
    /\ call.initial.cols = <<<<"k">>, <<"f">>, <<"g">>>>
    /\ call.procs[1].op.column_names = <<<<"f">>>>
    /\ call.procs[2].op.column_names = <<<<"g">>>>
    /\ call.events = << <<"read", 1>>, <<"read", 2>>, <<"open", 1>>, <<"close", 1>>,
                        <<"open", 2>>, <<"close", 2>> >>
    /\ dataset.cols = <<<<"k">>, <<"f">>>>

----------------------------------------------------------------------------
(* Feature Extractor: formats/excel.py extract_features_to_csv.  A sheet is *)
(* the frame pd.read_excel(header=None) makes of it: a grid of cells with   *)
(* 0-based row and column numbers.  Column numbers are not negative.        *)

\* str(cell) of a cell of an object column: NaN is 'nan', an integer its digits
CellStr(c) ==
    IF c.t = "null" THEN <<"n","a","n">>
    ELSE IF c.t = "text" THEN c.txt ELSE IntToChars(c.num)

\* df.iloc[r, a:b].tolist() on the row, for 0 <= a and 0 <= b: the slice is cut
\* at the width of the sheet
RowSlice(row, a, b) == SubSeq(row, a + 1, IF b < Len(row) THEN b ELSE Len(row))

\* lines 203-207: the slice padded with None or cut to the rows of the output
PadOrTruncate(feature_data, n) ==
    [i \in 1..n |-> IF i <= Len(feature_data) THEN feature_data[i] ELSE Null]

RECURSIVE FirstFreeSuffix(_, _, _)
FirstFreeSuffix(feature_name, columns, count) ==
    LET suffixed == feature_name \o <<"_">> \o IntToChars(count)
    IN  IF suffixed \in Range(columns)
        THEN FirstFreeSuffix(feature_name, columns, count + 1)
        ELSE suffixed

\* a plausible slip: a name that is taken is used again
FreeName_taken(feature_name, columns) == feature_name

\* lines 210-214: the name, or the first of name_1, name_2, ... not in use
FreeName(feature_name, columns) ==
    IF feature_name \in Range(columns)
    THEN FirstFreeSuffix(feature_name, columns, 1)
    ELSE feature_name

\* lines 192-197: the name from the map (keyed by the row index), or the
\* normalized cell (row_idx, start_col)
FeatureName(df, row_idx, start_col, feature_name_map) ==
    IF row_idx \in DOMAIN feature_name_map THEN feature_name_map[row_idx]
    ELSE normalize_feature_name(PyStr(Strip(
            CellStr(PyIndex(df.rows, row_idx)[start_col + 1]), Whitespace)))

\* a plausible slip: the data read one row below the name cell
FeatureData_next_row(df, row_idx, start_col, end_col) ==
    RowSlice(PyIndex(df.rows, IF row_idx + 1 < Len(df.rows) THEN row_idx + 1 ELSE row_idx),
             start_col + 1, end_col + 1)

\* line 200: df.iloc[row_idx, start_col + 1 : end_col + 1].tolist()
FeatureData(df, row_idx, start_col, end_col) ==
    RowSlice(PyIndex(df.rows, row_idx), start_col + 1, end_col + 1)

\* the accesses of one pass of the loop that raise IndexError
FeatureRowRaises(df, row_idx, start_col, feature_name_map) ==
    \/ ~PyIndexable(df.rows, row_idx)
    \/ /\ row_idx \notin DOMAIN feature_name_map
       /\ start_col >= Len(PyIndex(df.rows, row_idx))

\* the loop of lines 190-216 from the k-th index on: ok is FALSE once a pass
\* has raised
RECURSIVE AppendFeatures(_, _, _, _, _, _, _)
AppendFeatures(df, df_out, feature_row_indices, k, start_col, end_col, feature_name_map) ==
    IF k > Len(feature_row_indices) THEN [ok |-> TRUE, df |-> df_out]
    ELSE LET row_idx == feature_row_indices[k]
         IN  IF FeatureRowRaises(df, row_idx, start_col, feature_name_map)
             THEN [ok |-> FALSE, df |-> df_out]
             ELSE LET feature_name ==
                          FreeName(FeatureName(df, row_idx, start_col, feature_name_map),
                                   df_out.cols)
                      feature_data ==
                          PadOrTruncate(FeatureData(df, row_idx, start_col, end_col),
                                        Len(df_out.rows))
                  IN  AppendFeatures(df, SetColumn(df_out, feature_name, feature_data),
                                     feature_row_indices, k + 1, start_col, end_col,
                                     feature_name_map)

\* lines 172-184: the output file once the call has passed the initialization
InitializedCsv(df, header_row_index, start_col, end_col, out) ==
    IF out.exists THEN out
    ELSE LET entities ==
                 RowSlice(PyIndex(df.rows, header_row_index), start_col + 1, end_col + 1)
         IN  ToCsv([cols |-> <<COOPERATIVA>>,
                    rows |-> [i \in DOMAIN entities |-> <<entities[i]>>]])

extract_features_to_csv(sheet, feature_row_indices, header_row_index, start_col, end_col, out, feature_name_map) ==
    IF ~sheet.exists THEN Result(out, "Error extracting features")
    ELSE IF ~out.exists /\ ~PyIndexable(sheet.rows, header_row_index)
    THEN Result(out, "Error extracting features")
    ELSE LET initialized ==
                 InitializedCsv(sheet, header_row_index, start_col, end_col, out)
             appended ==
                 AppendFeatures(sheet, ReadCsv(initialized), feature_row_indices, 1,
                                start_col, end_col, feature_name_map)
         IN  IF ~appended.ok THEN Result(initialized, "Error extracting features")
             ELSE Result(ToCsv(appended.df), "Successfully appended features")

----------------------------------------------------------------------------
(* The Feature Extractor's inputs, and calls one after another on one       *)
(* output path that starts without a file.                                  *)

MaxExtractCalls == 2

\* row 0 the entity names, rows 1 and 2 features whose names normalize to f,
\* row 3 a feature with a gap and a name of its own
Sheet ==
    [exists |-> TRUE,
     rows |-> << <<Null, Text(<<"A">>), Text(<<"B">>), Text(<<"C">>)>>,
                 <<Text(<<"F">>), Num(1, 1, 1), Num(2, 1, 1), Num(3, 1, 1)>>,
                 <<Text(<<"f", " ">>), Num(4, 1, 1), Text(<<"x">>), Num(6, 1, 1)>>,
                 <<Text(F_PERCENT), Num(7, 1, 1), Null, Num(9, 1, 1)>> >>]
NoSheet == [exists |-> FALSE, rows |-> <<>>]
Sheets == {Sheet, NoSheet}

\* lists of feature rows: none, one row, two rows, a row twice, and row 4,
\* which the sheet does not have, alone and after a row it has
FeatureRowLists ==
    {<<>>, <<1>>, <<3>>, <<1, 2>>, <<2, 1>>, <<1, 1>>, <<4>>, <<1, 4>>}
HeaderRows == {0, 4}
StartCols == {0, 1}
\* short of the sheet's last column, and past it
EndCols == {1, 4}
F_1 == <<"f", "_", "1">>
\* no map, and a map that names row 3 f_1
FeatureNameMaps == {<<>>, [r \in {3} |-> F_1]}

InitExtract ==
    /\ dataset = NoFile
    /\ call = [op |-> "none", before |-> NoFile, sheet |-> NoSheet,
               feature_row_indices |-> <<>>, header_row_index |-> 0,
               start_col |-> 0, end_col |-> 0, feature_name_map |-> <<>>, n |-> 0]
    /\ ret = ""

ExtractFeaturesToCsv ==
    /\ call.n < MaxExtractCalls
    /\ \E sheet \in Sheets, rows \in FeatureRowLists, header \in HeaderRows,
          start_col \in StartCols, end_col \in EndCols, map \in FeatureNameMaps :
          LET r == extract_features_to_csv(sheet, rows, header, start_col, end_col,
                                           dataset, map)
          IN  /\ dataset' = r.file
              /\ ret' = r.ret
              /\ call' = [op |-> "extract_features_to_csv", before |-> dataset,
                          sheet |-> sheet, feature_row_indices |-> rows,
                          header_row_index |-> header, start_col |-> start_col,
                          end_col |-> end_col, feature_name_map |-> map,
                          n |-> call.n + 1]

SpecExtract == InitExtract /\ [][ExtractFeaturesToCsv]_vars

----------------------------------------------------------------------------
(* Claims about the Feature Extractor.                                     *)

ExtractedOk ==
    call.op = "extract_features_to_csv" /\ ret = "Successfully appended features"
ExtractFailed ==
    call.op = "extract_features_to_csv" /\ ret = "Error extracting features"

\* the sheet has every row and the name column the call names
ExtractArgumentsInSheet ==
    /\ call.op = "extract_features_to_csv"
    /\ call.sheet.exists
    /\ call.before.exists \/ call.header_row_index \in 0..(Len(call.sheet.rows) - 1)
    /\ \A k \in DOMAIN call.feature_row_indices :
          /\ call.feature_row_indices[k] \in 0..(Len(call.sheet.rows) - 1)
          /\ call.start_col < Len(call.sheet.rows[call.feature_row_indices[k] + 1])

\* the columns of the output before the first feature of the call
ColumnsBefore == IF call.before.exists THEN Len(call.before.cols) ELSE 1

\* name is base, or base with a numeric suffix
IsNameOrSuffixed(name, base) ==
    \/ name = base
    \/ \E c \in 1..(Len(dataset.cols)) : name = base \o <<"_">> \o IntToChars(c)

\* C25: for the k-th row index r of the call, the appended column holds in
\* output row i the sheet cell (r, start_col+1+i), from the row whose cell
\* (r, start_col) gives the name when the map has no entry, for every i below
\* the entity count and the slice length; a shorter slice leaves nulls, a
\* longer one is cut, and neither fails the call.
C25_FeatureRowAlignment ==
    ExtractArgumentsInSheet =>
        /\ ExtractedOk
        /\ Len(dataset.cols) = ColumnsBefore + Len(call.feature_row_indices)
        /\ \A k \in DOMAIN call.feature_row_indices :
              LET row == call.sheet.rows[call.feature_row_indices[k] + 1]
              IN  /\ call.feature_row_indices[k] \notin DOMAIN call.feature_name_map =>
                        IsNameOrSuffixed(dataset.cols[ColumnsBefore + k],
                            normalize_feature_name(PyStr(Strip(
                                CellStr(row[call.start_col + 1]), Whitespace))))
                  /\ \A i \in 0..(Len(dataset.rows) - 1) :
                        dataset.rows[i + 1][ColumnsBefore + k]
                            = IF call.start_col + 1 + i <= call.end_col
                                 /\ call.start_col + 1 + i < Len(row)
                              THEN row[call.start_col + 1 + i + 1]
                              ELSE Null

\* rows 2 and 1 appended to a table of three entities from a slice of one cell
C25_Witness ==
    /\ ExtractedOk
    /\ call.before.exists
    /\ Len(call.before.rows) = 3
    /\ call.feature_row_indices = <<2, 1>>
    /\ call.start_col = 0
    /\ call.end_col = 1
    /\ dataset.cols = <<COOPERATIVA, <<"f">>, F_1>>
    /\ dataset.rows[1] = <<Text(<<"A">>), Num(4, 1, 1), Num(1, 1, 1)>>
    /\ dataset.rows[3] = <<Text(<<"C">>), Null, Null>>

\* the entity names the initializing call reads from the header row
EntitiesOf(sheet, header_row_index, start_col, end_col) ==
    RowSlice(sheet.rows[header_row_index + 1], start_col + 1, end_col + 1)

\* C26: a successful extract_features_to_csv call leaves the row count at the
\* entity count of the initializing call and the cooperativa column as it
\* was, adds exactly len(feature_row_indices) columns at the end, leaves every
\* column it found as it was, and names a new column by the first free name
\* among name, name_1, name_2, ..., so that the names stay pairwise distinct.
C26_ExtractOnlyAppends ==
    ExtractedOk =>
        /\ Len(dataset.cols) = ColumnsBefore + Len(call.feature_row_indices)
        /\ dataset.cols[1] = COOPERATIVA
        /\ IF call.before.exists
           THEN /\ Len(dataset.rows) = Len(call.before.rows)
                /\ \A j \in DOMAIN call.before.cols :
                      /\ dataset.cols[j] = call.before.cols[j]
                      /\ Column(ReadCsv(dataset), j) = Column(ReadCsv(call.before), j)
           ELSE LET entities == EntitiesOf(call.sheet, call.header_row_index,
                                           call.start_col, call.end_col)
                IN  /\ Len(dataset.rows) = Len(entities)
                    /\ Column(dataset, 1) = entities
        /\ \A j, k \in DOMAIN dataset.cols : dataset.cols[j] = dataset.cols[k] => j = k
        /\ \A k \in DOMAIN call.feature_row_indices :
              LET base == FeatureName(call.sheet, call.feature_row_indices[k],
                                      call.start_col, call.feature_name_map)
                  prior == Range(SubSeq(dataset.cols, 1, ColumnsBefore + k - 1))
                  name == dataset.cols[ColumnsBefore + k]
              IN  IF base \notin prior THEN name = base
                  ELSE \E c \in 1..Len(dataset.cols) :
                          /\ name = base \o <<"_">> \o IntToChars(c)
                          /\ \A d \in 1..(c - 1) :
                                (base \o <<"_">> \o IntToChars(d)) \in prior

\* a third column named f on a table that has f and f_1: it is called f_2
C26_Witness ==
    /\ ExtractedOk
    /\ call.before.exists
    /\ call.before.cols = <<COOPERATIVA, <<"f">>, F_1>>
    /\ call.feature_row_indices = <<1>>
    /\ dataset.cols = <<COOPERATIVA, <<"f">>, F_1, <<"f", "_", "2">>>>
    /\ Len(dataset.rows) = 3

\* C30: a call that returns an error leaves the output path as it was: a file
\* that was there is unchanged, a file that was not there has not been created.
C30_FailedExtractIsAtomic ==
    ExtractFailed => dataset = call.before

\* a first call whose feature row is outside the sheet: the file is there,
\* with the entity names only
C30_Witness ==
    /\ ExtractFailed
    /\ ~call.before.exists
    /\ call.feature_row_indices = <<4>>
    /\ dataset.exists
    /\ dataset.cols = <<COOPERATIVA>>
    /\ Len(dataset.rows) = 3

----------------------------------------------------------------------------
(* dataset.py get_first_column: the names the consolidator looks entities   *)
(* up in to build an index mapping for a source.                            *)

\* df.iloc[:, 0].dropna().astype(str).str.strip().tolist(), or the error list
get_first_column(file) ==
    IF ~file.exists \/ file.cols = <<>> THEN <<"Error">>
    ELSE LET first == NonNull(Column(ReadCsv(file), 1))
         IN  [k \in DOMAIN first |-> Strip(AsStr(first[k]), Whitespace)]

MaxSourceRows == 3

\* the first cell of a source row: a name, a name with a blank before it, a
\* gap, and the text NA
SourceNameCells == {Text(<<"A">>), Text(<<" ", "B">>), Null, Text(<<"N", "A">>)}

\* sources with the columns name and f, f of row k being the number k
NamedSources ==
    {[exists |-> TRUE, cols |-> <<NAME, <<"f">>>>,
      rows |-> [k \in DOMAIN names |-> <<names[k], Text(IntToChars(k))>>]] :
        names \in SeqsUpTo(SourceNameCells, MaxSourceRows)}
    \cup {NoFile}

InitFirstColumn ==
    /\ dataset = NoFile
    /\ call \in {[op |-> "none", source |-> source] : source \in NamedSources}
    /\ ret = <<>>

GetFirstColumn ==
    /\ call.op = "none"
    /\ ret' = get_first_column(call.source)
    /\ call' = [call EXCEPT !.op = "get_first_column"]
    /\ UNCHANGED dataset

SpecFirstColumn == InitFirstColumn /\ [][GetFirstColumn]_vars

\* C28: the list get_first_column returns is position-faithful: the k-th name
\* is the name of the source row that append_aligned_columns and
\* append_cleaned_risk_column read for the mapping value k (counted from 0),
\* also for a source whose first column has null cells.
C28_FirstColumnKeepsPositions ==
    (call.op = "get_first_column" /\ call.source.exists) =>
        \A k \in DOMAIN ret :
            /\ k <= Len(call.source.rows)
            /\ LET aligned == PyIndex(ReadCsv(call.source).rows, k - 1)
               IN  /\ ~IsNull(aligned[1])
                   /\ ret[k] = Strip(AsStr(aligned[1]), Whitespace)
                   /\ AlignedRow(ReadCsv(call.source), k - 1) = Tail(aligned)

\* a source whose first row has no name: the name of row 1 is returned at
\* position 0
C28_Witness ==
    /\ call.op = "get_first_column"
    /\ call.source.rows = << <<Null, Text(<<"1">>)>>, <<Text(<<"A">>), Text(<<"2">>)>> >>
    /\ ret = << <<"A">> >>

----------------------------------------------------------------------------
(* Claims about the normalizers.                                           *)

\* The slash-separated segments of s, by position: s[i..j] holds no '/' and is
\* bounded on each side by a '/' or by an end of s.
SlashSegments(s) ==
    {SubSeq(s, i, j) : <<i, j>> \in
        {p \in (1..(Len(s) + 1)) \X (0..Len(s)) :
            /\ p[2] >= p[1] - 1
            /\ \A k \in p[1]..p[2] : s[k] # "/"
            /\ (p[1] = 1 \/ s[p[1] - 1] = "/")
            /\ (p[2] = Len(s) \/ s[p[2] + 1] = "/")}}

\* The rating symbols among the segments' letters, upper-cased
ValidRatingsOf(s) ==
    {Upper(Filter(seg, IsAlpha)) : seg \in SlashSegments(s)} \cap RatingSymbols

C6_NameNormalizerIdempotent ==
    call.op = "normalize_feature_name" =>
        normalize_feature_name(PyStr(ret)) = ret

C6_Witness ==
    /\ call.op = "normalize_feature_name"
    /\ call.arg = PyStr(<<"a", "/", "B">>)
    /\ ret = <<"a","_","s","o","b","r","e","_","b">>

\* a character the normalizer keeps as a letter or digit: an ASCII letter or
\* digit, or a letter with a diacritic that decomposes to one
IsNameAlnum(c) ==
    c \in LowerLetters \cup UpperLetters \cup Digits \cup {"é", "É", "ñ", "Ñ"}

\* the runs s[i..j] of characters that are neither letters nor digits, nor
\* '/' or '%', lying between two letters or digits
SeparatorRuns(s) ==
    {r \in (DOMAIN s) \X (DOMAIN s) :
        /\ 1 < r[1] /\ r[1] <= r[2] /\ r[2] < Len(s)
        /\ \A k \in r[1]..r[2] : ~IsNameAlnum(s[k]) /\ s[k] \notin {"/", "%"}
        /\ IsNameAlnum(s[r[1] - 1])
        /\ IsNameAlnum(s[r[2] + 1])}

HasToken(out, token) ==
    \E i \in DOMAIN out : i + Len(token) - 1 <= Len(out)
                          /\ SubSeq(out, i, i + Len(token) - 1) = token

\* C23: the Name Normalizer's output has only a-z, 0-9 and '_', neither
\* starts nor ends with '_', has no two '_' in a row, carries 'sobre' for a
\* '/' and 'porcentaje' for a '%', and has exactly one '_' for every run of
\* characters that are not letters or digits between two letters or digits,
\* symbols outside ASCII included; an empty or falsy input gives ''.
C23_NameIsSnakeCase ==
    call.op = "normalize_feature_name" =>
        LET s == call.arg.s
        IN  /\ \A i \in DOMAIN ret : IsSnakeChar(ret[i]) \/ ret[i] = "_"
            /\ ret # <<>> => (ret[1] # "_" /\ ret[Len(ret)] # "_")
            /\ \A i \in 1..(Len(ret) - 1) : ~(ret[i] = "_" /\ ret[i + 1] = "_")
            /\ "/" \in Range(s) => HasToken(ret, <<"s","o","b","r","e">>)
            /\ "%" \in Range(s) => HasToken(ret, Tail(PORCENTAJE))
            /\ (call.arg.ty # "str" \/ s = <<>>) => ret = <<>>
            /\ \A r \in SeparatorRuns(s) :
                  ret = normalize_feature_name(PyStr(SubSeq(s, 1, r[1] - 1)))
                        \o <<"_">>
                        \o normalize_feature_name(PyStr(SubSeq(s, r[2] + 1, Len(s))))

\* a symbol outside ASCII between two letters leaves no underscore
C23_Witness ==
    /\ call.op = "normalize_feature_name"
    /\ call.arg = PyStr(<<"a", "€", "B">>)
    /\ ret = <<"a", "b">>

====
